---- MODULE Spec2Model ----
(***************************************************************************)
(* Orchestration kernel of openrappter: AgentGraph (DAG scheduler),        *)
(* AgentChain (pipeline), BroadcastManager, SubAgentManager, the run       *)
(* action of PipelineAgent and the span store of AgentTracer.              *)
(* Each component has its own specification over the shared variables;     *)
(* the variables of the other components stay at their initial values.     *)
(***************************************************************************)
EXTENDS Integers, Sequences, FiniteSets, TLC

\* ------------------------------------------------------------------------
\* Bounds of the model
\* ------------------------------------------------------------------------
\* most nodes a graph is given
MaxNodes == 3

\* most steps a chain is given
MaxSteps == 3

\* pool of node names, in declaration order; Missing names no node
NodePool == <<"a", "b", "c", "d", "e">>
Missing == "zz"

\* ------------------------------------------------------------------------
\* Sequence helpers
\* ------------------------------------------------------------------------
SeqToSet(s) == {s[i] : i \in DOMAIN s}

InSeq(x, s) == \E i \in DOMAIN s : s[i] = x

\* list.index(x): position of the first occurrence (x must occur)
IndexOf(s, x) == CHOOSE i \in DOMAIN s : s[i] = x /\ \A j \in 1..(i - 1) : s[j] # x

\* sequences of pairwise distinct elements of S, of length at most 2
\* None where a slush is expected
NoSlush == <<"none">>

DepLists(S) ==
    {<<>>} \cup {<<x>> : x \in S} \cup {<<p[1], p[2]>> : p \in {q \in S \X S : q[1] # q[2]}}

VARIABLES
    \* ---- AgentGraph ----
    gNodes,           \* self._nodes keys, in insertion order
    gDeps,            \* name -> node.depends_on
    gStop,            \* self._stop_on_error
    gPar,             \* self._parallel
    gPc,              \* position of run(): idle, level, seq, par, done, raised, crashed
    gValidation,      \* what the last validate() call gave
    levels,           \* levels of _topological_levels
    gLevelIdx,        \* index of the level the for loop is at
    to_run,           \* to_run of the current level
    gRunIdx,          \* index in to_run of the sequential loop
    gPending,         \* workers of the parallel level that have not finished
    level_results,    \* level_results of the parallel branch
    node_results,     \* name -> GraphNodeResult ("none" status: no entry)
    execution_order,
    skipped,
    gInvoked,         \* name -> number of agent.execute calls made for the node
    gUpstream,        \* name -> the upstream_slush argument of the node's agent call
    gResult,          \* the GraphResult returned by run()
    gAgentOf,         \* name -> the agent instance node.agent (named by the first node that wraps it)
    gLast,            \* agent instance -> its _last_data_slush
    gWork,            \* name -> position of the node's pool worker: idle, executing, returned, done
    gOut,             \* name -> how the worker's agent.execute call ended
    gDoneOrder,       \* the nodes in the order as_completed yielded their futures
    \* ---- AgentChain ----
    cN,               \* len(self._steps); step i is named i
    cStop,            \* self._stop_on_error
    cTimeout,         \* self._step_timeout is set
    cInitial,         \* keys of the initial_kwargs given to run()
    cPc,              \* position of run(): idle, loop, built, called, done, raised
    cIdx,             \* i of the for loop (1-based)
    cCfg,             \* kwargs and transform of the step at hand
    kwargs,           \* kwargs built for the step at hand
    cXform,           \* the arguments step.transform was called with for the step at hand
    cPending,         \* the agent called for the step at hand and how its call ended
    cAgentSlush,      \* agent -> its _last_data_slush
    cZombies,         \* calls abandoned by the timeout whose threads still run
    step_results,
    current_slush,
    last_result,
    cInvoked,         \* step -> number of agent.execute calls made for it
    cResult,          \* the ChainResult returned by run()
    \* ---- BroadcastManager ----
    groups,           \* self._groups: the dict group id -> group
    bRemoved,         \* the ids remove_group returned True for, not created again since
    bGroupId,         \* the group_id broadcast() was called with
    bPc,              \* position of broadcast(): idle, all, race, cancel, fallback, done, raised
    bGroup,           \* the group broadcast() was called on
    results,          \* agent id -> outcome recorded in results ("none": no entry)
    bOut,             \* list position -> how the call made for that entry ended
    first_response,   \* agent id of firstResponse ("none": None)
    last_slush,       \* last_slush of _broadcast_fallback
    bIdx,             \* position of the fallback loop in agentIds
    bTask,            \* list position -> state of its call: new, running, done, cancelling,
                      \* cancelled, slipped (ended by itself after cancel() was called)
    bCalls,           \* list position -> number of executor calls made for that entry
    bUpstream,        \* list position -> upstream_slush argument of its executor call
    bOrder,           \* list positions in the order their calls ended
    bResult,          \* the BroadcastResult returned
    \* ---- SubAgentManager ----
    sConfig,          \* the config dict given to __init__
    sExecutor,        \* an executor has been set
    active_calls,     \* self._active_calls, as the set of its call records
    call_history,     \* self._call_history
    sStack,           \* contexts in use: the caller's, then one per invoke in progress
    sAttempts,        \* number of invoke() calls made
    sLast,            \* how the last invoke() call went, with its arguments
    sExecCalls,       \* number of executor calls made
    sCan,             \* the last can_invoke() call and what it returned
    \* ---- PipelineAgent ----
    pSteps,           \* spec['steps']: the onError entry of each step
    pPc,              \* position of _run_pipeline: idle, loop, done
    pIdx,             \* index of the step the for loop is at
    pipeline_status,
    pStepResults,     \* step_results: the step and the status of each result
    pExecuted,        \* step -> number of _execute_step calls made for it
    pResult,          \* pipeline.status of the returned result
    \* ---- AgentTracer ----
    tMax,             \* self._max_spans
    tActive,          \* keys of self._active_spans
    tCompleted,       \* ids of self._completed_spans, oldest first
    tIssued,          \* number of start_span calls made; span k is the k-th one
    tEnded            \* every span end_span completed, in the order of completion

gvars == <<gNodes, gDeps, gStop, gPar, gPc, gValidation, levels, gLevelIdx,
           to_run, gRunIdx, gPending, level_results, node_results,
           execution_order, skipped, gInvoked, gUpstream, gResult,
           gAgentOf, gLast, gWork, gOut, gDoneOrder>>

\* the positions of the pool workers of a parallel level
gwvars == <<gWork, gOut, gDoneOrder>>

cvars == <<cN, cStop, cTimeout, cInitial, cPc, cIdx, cCfg, kwargs, cXform, cPending,
           cAgentSlush, cZombies, step_results, current_slush, last_result,
           cInvoked, cResult>>

bvars == <<groups, bRemoved, bGroupId, bPc, bGroup, results, bOut, first_response, last_slush,
           bIdx, bTask, bCalls, bUpstream, bOrder, bResult>>

svars == <<sConfig, sExecutor, active_calls, call_history, sStack, sAttempts, sLast,
           sExecCalls, sCan>>

pvars == <<pSteps, pPc, pIdx, pipeline_status, pStepResults, pExecuted, pResult>>

tvars == <<tMax, tActive, tCompleted, tIssued, tEnded>>

vars == <<gvars, cvars, bvars, svars, pvars, tvars>>

\* the variables of the other components
nonGraph == <<cvars, bvars, svars, pvars, tvars>>
nonChain == <<gvars, bvars, svars, pvars, tvars>>
nonBroadcast == <<gvars, cvars, svars, pvars, tvars>>
nonSub == <<gvars, cvars, bvars, pvars, tvars>>
nonPipeline == <<gvars, cvars, bvars, svars, tvars>>
nonTracer == <<gvars, cvars, bvars, svars, pvars>>

\* ========================================================================
\* AgentGraph
\* ========================================================================
NodeSet == SeqToSet(gNodes)

NoResult == [status |-> "none", rstatus |-> "none", data_slush |-> NoSlush]

\* kwargs without the key upstream_slush
NoUpstream == [given |-> FALSE, map |-> <<>>]

NoGraphResult == [status |-> "none", error |-> "none"]

\* no validate() call has been made
NoValidation == [outcome |-> "none", valid |-> FALSE, errors |-> <<>>]

\* all (name, dep) pairs, nodes in declaration order, deps in list order
RECURSIVE EdgesFrom(_)
EdgesFrom(i) ==
    IF i > Len(gNodes) THEN <<>>
    ELSE [j \in 1..Len(gDeps[gNodes[i]]) |-> <<gNodes[i], gDeps[gNodes[i]][j]>>]
         \o EdgesFrom(i + 1)

AllEdges == EdgesFrom(1)

\* ---- validate() --------------------------------------------------------
MissingError(e) == [kind |-> "missing", node |-> e[1], dep |-> e[2], path |-> <<>>]

CycleError(p) == [kind |-> "cycle", node |-> "", dep |-> "", path |-> p]

\* first loop of validate(): one error per (node, dep) with dep not a node
MissingErrors ==
    LET bad == SelectSeq(AllEdges, LAMBDA e : e[2] \notin NodeSet)
    IN  [i \in 1..Len(bad) |-> MissingError(bad[i])]

\* stack[cycle_start:] + [dep]
CyclePath(stack, dep) == SubSeq(stack, IndexOf(stack, dep), Len(stack)) \o <<dep>>

\* The nested dfs of validate().  st carries color, stack and errors; ret is
\* the value dfs returns, crashed says stack.index(dep) raised ValueError
\* (dep is GRAY but not on this call's stack).
\* line 106: if color[dep] == GRAY
on_path_Visited(c) == c # "WHITE"

on_path(c) == c = "GRAY"

RECURSIVE dfs(_, _), dfs_deps(_, _, _)
dfs_deps(name, i, st) ==
    IF i > Len(gDeps[name])
    THEN [st EXCEPT !.stack = SubSeq(@, 1, Len(@) - 1),
                    !.color[name] = "BLACK",
                    !.ret = FALSE]
    ELSE LET dep == gDeps[name][i] IN
         IF dep \notin NodeSet THEN dfs_deps(name, i + 1, st)
         ELSE IF on_path(st.color[dep])
              THEN IF InSeq(dep, st.stack)
                   THEN [st EXCEPT !.errors = Append(@, CycleError(CyclePath(st.stack, dep))),
                                   !.ret = TRUE]
                   ELSE [st EXCEPT !.crashed = TRUE, !.ret = TRUE]
         ELSE IF st.color[dep] = "WHITE"
              THEN LET r == dfs(dep, st) IN
                   IF r.crashed \/ r.ret THEN r ELSE dfs_deps(name, i + 1, r)
         ELSE dfs_deps(name, i + 1, st)

dfs(name, st) ==
    dfs_deps(name, 1, [st EXCEPT !.color[name] = "GRAY", !.stack = Append(@, name)])

\* for name in self._nodes: if color[name] == WHITE: dfs(name, [])
RECURSIVE DfsRoots(_, _)
DfsRoots(i, st) ==
    IF i > Len(gNodes) \/ st.crashed THEN st
    ELSE IF st.color[gNodes[i]] = "WHITE"
         THEN DfsRoots(i + 1, dfs(gNodes[i], [st EXCEPT !.stack = <<>>]))
         ELSE DfsRoots(i + 1, st)

validate ==
    LET st0 == [color |-> [n \in NodeSet |-> "WHITE"], stack |-> <<>>,
                errors |-> MissingErrors, ret |-> FALSE, crashed |-> FALSE]
        st == DfsRoots(1, st0)
    IN  IF st.crashed
        THEN [outcome |-> "raised", valid |-> FALSE, errors |-> <<>>]
        ELSE [outcome |-> "returned", valid |-> Len(st.errors) = 0, errors |-> st.errors]

\* line 128: if not validation['valid']
validation_failed_NoCycleCheck(v) == \E i \in DOMAIN v.errors : v.errors[i].kind = "missing"

validation_failed(v) == ~v.valid

\* ---- _topological_levels() --------------------------------------------
ExistingEdges == SelectSeq(AllEdges, LAMBDA e : e[2] \in NodeSet)

in_degree0 ==
    [n \in NodeSet |-> Len(SelectSeq(ExistingEdges, LAMBDA e : e[1] = n))]

dependents(dep) ==
    LET es == SelectSeq(ExistingEdges, LAMBDA e : e[2] = dep)
    IN  [i \in 1..Len(es) |-> es[i][1]]

RECURSIVE DependentsOfLevel(_)
DependentsOfLevel(current) ==
    IF current = <<>> THEN <<>>
    ELSE dependents(Head(current)) \o DependentsOfLevel(Tail(current))

\* the inner loops of the while: decrement, collect those that reach 0
RECURSIVE Relax(_, _, _)
Relax(ds, deg, next) ==
    IF ds = <<>> THEN [deg |-> deg, next |-> next]
    ELSE LET d == Head(ds)
             deg2 == [deg EXCEPT ![d] = @ - 1]
         IN  Relax(Tail(ds), deg2, IF deg2[d] = 0 THEN Append(next, d) ELSE next)

RECURSIVE Kahn(_, _)
Kahn(current, deg) ==
    IF current = <<>> THEN <<>>
    ELSE LET r == Relax(DependentsOfLevel(current), deg, <<>>)
         IN  <<current>> \o Kahn(r.next, r.deg)

topological_levels ==
    Kahn(SelectSeq(gNodes, LAMBDA n : in_degree0[n] = 0), in_degree0)

\* ---- helpers of run() --------------------------------------------------
should_skip_ErrorOnly(name, sk, completed) ==
    \E i \in DOMAIN gDeps[name] : completed[gDeps[name][i]].status = "error"

should_skip_AnyFailure(name, sk, completed) ==
    sk # {} \/ \E n \in NodeSet : completed[n].status = "error"

should_skip(name, sk, completed) ==
    \E i \in DOMAIN gDeps[name] :
        \/ gDeps[name][i] \in sk
        \/ completed[gDeps[name][i]].status = "error"

RECURSIVE collect_dependents(_, _), collect_loop(_, _, _)
collect_loop(failed_name, i, sk) ==
    IF i > Len(gNodes) THEN sk
    ELSE LET name == gNodes[i] IN
         IF name \notin sk /\ InSeq(failed_name, gDeps[name])
         THEN collect_loop(failed_name, i + 1, collect_dependents(name, sk \cup {name}))
         ELSE collect_loop(failed_name, i + 1, sk)

collect_dependents(failed_name, sk) == collect_loop(failed_name, 1, sk)

has_error(completed) == \E n \in NodeSet : completed[n].status = "error"

make_skipped == [status |-> "skipped", rstatus |-> "info", data_slush |-> NoSlush]

\* lines 255-264: the upstream_slush entry of the kwargs of node name
upstream_slush(name, completed) ==
    LET keys == {d \in SeqToSet(gDeps[name]) \cap NodeSet :
                    completed[d].status # "none" /\ completed[d].data_slush # NoSlush}
    IN  IF keys = {} THEN NoUpstream
        ELSE [given |-> TRUE, map |-> [d \in keys |-> completed[d].data_slush]]

\* lines 275-279: the agent's last_data_slush or, when it is empty, the
\* slush_out() that names the node and the status of its result
node_data_slush_OwnOnly(name, outcome) ==
    IF outcome = "ok_slush" THEN <<"own", name>> ELSE NoSlush

node_data_slush(name, outcome) ==
    IF outcome = "ok_slush" THEN <<"own", name>>
    ELSE <<"auto", name, IF outcome = "returns_error" THEN "error" ELSE "success">>

\* what _execute_node returns for an agent call that ends as outcome says;
\* for a returned JSON list result.get() raises inside the try block
execute_node(name, outcome) ==
    IF outcome \in {"raises", "returns_list"}
    THEN [status |-> "error", rstatus |-> "error", data_slush |-> NoSlush]
    ELSE [status |-> "success",
          rstatus |-> IF outcome = "returns_error" THEN "error" ELSE "success",
          data_slush |-> node_data_slush(name, outcome)]

AgentOutcomes == {"ok", "ok_slush", "returns_error", "raises"}

\* the calls of the agents of a worker pool: a result with its own
\* data_slush, a result of status 'error' without one, a JSON list, and a
\* call that raises
NodeOutcomes == {"ok_slush", "returns_error", "returns_list", "raises"}

\* basic_agent.py lines 140-151: execute() stores the data_slush of the
\* result on the agent object before it returns; a call that raises in
\* perform() stores nothing
own_slush(name, outcome) ==
    IF outcome = "ok_slush" THEN <<"own", name>> ELSE NoSlush

agent_slush_after(name, outcome) ==
    IF outcome = "raises" THEN gLast
    ELSE [gLast EXCEPT ![gAgentOf[name]] = own_slush(name, outcome)]

\* the status the returned result carries
result_status(outcome) ==
    CASE outcome = "returns_error" -> "error"
      [] outcome = "returns_list" -> "none"
      [] OTHER -> "success"

\* graph.py lines 268-288: the node result built from the value execute()
\* returned and the slush last read from node.agent.last_data_slush
node_result(name, outcome, last) ==
    IF last = NoSlush /\ outcome = "returns_list"
    THEN [status |-> "error", rstatus |-> "error", data_slush |-> NoSlush]
    ELSE [status |-> "success", rstatus |-> result_status(outcome),
          data_slush |-> IF last # NoSlush THEN last
                         ELSE <<"auto", name, result_status(outcome)>>]

\* entries of the sequence names that have no result yet get a skipped one
RECURSIVE MarkSkipped(_, _, _)
MarkSkipped(names, res, order) ==
    IF names = <<>> THEN [res |-> res, order |-> order]
    ELSE LET n == Head(names) IN
         IF res[n].status = "none"
         THEN MarkSkipped(Tail(names), [res EXCEPT ![n] = make_skipped], Append(order, n))
         ELSE MarkSkipped(Tail(names), res, order)

\* lines 149-156: split the level into skipped nodes and to_run
RECURSIVE SplitLevel(_, _)
SplitLevel(names, acc) ==
    IF names = <<>> THEN acc
    ELSE LET n == Head(names) IN
         IF should_skip(n, acc.sk, acc.res)
         THEN SplitLevel(Tail(names),
                  [acc EXCEPT !.sk = @ \cup {n}, !.res[n] = make_skipped,
                              !.order = Append(@, n)])
         ELSE SplitLevel(Tail(names), [acc EXCEPT !.run = Append(@, n)])

\* lines 206-214
FinalResult(completed) ==
    [status |-> IF \E n \in NodeSet : completed[n].status \in {"error", "skipped"}
                THEN "partial" ELSE "success",
     error |-> "none"]

\* ---- the graphs and the initial state ----------------------------------
\* no pool worker has been submitted
WorkersIdle ==
    /\ gWork = [n \in NodeSet |-> "idle"]
    /\ gOut = [n \in NodeSet |-> "none"]
    /\ gDoneOrder = <<>>

GraphInit ==
    /\ \E n \in 1..MaxNodes :
         /\ gNodes = SubSeq(NodePool, 1, n)
         /\ gDeps \in [SeqToSet(SubSeq(NodePool, 1, n)) ->
                          DepLists(SeqToSet(SubSeq(NodePool, 1, n)) \cup {Missing})]
    /\ gStop = FALSE
    /\ gPar = TRUE
    /\ gPc = "idle"
    /\ gValidation = NoValidation
    /\ levels = <<>>
    /\ gLevelIdx = 0
    /\ to_run = <<>>
    /\ gRunIdx = 0
    /\ gPending = {}
    /\ level_results = [n \in NodeSet |-> NoResult]
    /\ node_results = [n \in NodeSet |-> NoResult]
    /\ execution_order = <<>>
    /\ skipped = {}
    /\ gInvoked = [n \in NodeSet |-> 0]
    /\ gUpstream = [n \in NodeSet |-> NoUpstream]
    /\ gResult = NoGraphResult
    /\ gAgentOf = [n \in NodeSet |-> n]
    /\ gLast = [n \in NodeSet |-> NoSlush]
    /\ WorkersIdle

\* the graph component is not in use
GraphQuiet ==
    /\ gNodes = <<>>
    /\ gDeps = <<>>
    /\ gStop = FALSE
    /\ gPar = TRUE
    /\ gPc = "idle"
    /\ gValidation = NoValidation
    /\ levels = <<>>
    /\ gLevelIdx = 0
    /\ to_run = <<>>
    /\ gRunIdx = 0
    /\ gPending = {}
    /\ level_results = <<>>
    /\ node_results = <<>>
    /\ execution_order = <<>>
    /\ skipped = {}
    /\ gInvoked = <<>>
    /\ gUpstream = <<>>
    /\ gResult = NoGraphResult
    /\ gAgentOf = <<>>
    /\ gLast = <<>>
    /\ gWork = <<>>
    /\ gOut = <<>>
    /\ gDoneOrder = <<>>

\* validate() called on its own
GraphValidate ==
    /\ gPc = "idle"
    /\ gValidation = NoValidation
    /\ gValidation' = validate
    /\ UNCHANGED <<nonGraph, gAgentOf, gLast, gwvars, gNodes, gDeps, gStop, gPar, gPc, levels, gLevelIdx, to_run,
                   gRunIdx, gPending, level_results, node_results,
                   execution_order, skipped, gInvoked, gUpstream, gResult>>

\* run(), lines 125-137.  The options are fixed by __init__; run() reads them
\* only after validation has passed, and the model draws them there.
RunStart(stops, pars) ==
    /\ gPc = "idle"
    /\ LET validation == validate IN
       /\ gValidation' = validation
       /\ IF validation.outcome = "raised"
          THEN /\ gPc' = "crashed"
               /\ UNCHANGED <<levels, gLevelIdx, gStop, gPar>>
          ELSE IF validation_failed(validation)
          THEN /\ gPc' = "raised"
               /\ UNCHANGED <<levels, gLevelIdx, gStop, gPar>>
          ELSE /\ gPc' = "level"
               /\ gStop' \in stops
               /\ gPar' \in pars
               /\ levels' = topological_levels
               /\ gLevelIdx' = 1
    /\ UNCHANGED <<nonGraph, gAgentOf, gLast, gwvars, gNodes, gDeps, to_run, gRunIdx, gPending, level_results,
                   node_results, execution_order, skipped, gInvoked, gUpstream, gResult>>

GraphRunStart == RunStart(BOOLEAN, BOOLEAN)

\* run() of a graph built without options: lines 60-61 give
\* stop_on_error False and parallel True
GraphRunDefault == RunStart({FALSE}, {TRUE})

\* top of the for loop over levels, lines 139-162
GraphBeginLevel ==
    /\ gPc = "level"
    /\ gLevelIdx <= Len(levels)
    /\ LET level == levels[gLevelIdx] IN
       IF gStop /\ has_error(node_results)
       THEN LET m == MarkSkipped(level, node_results, execution_order) IN
            /\ node_results' = m.res
            /\ execution_order' = m.order
            /\ gLevelIdx' = gLevelIdx + 1
            /\ UNCHANGED <<gPc, to_run, gRunIdx, gPending, level_results, skipped>>
       ELSE LET s == SplitLevel(level, [sk |-> skipped, res |-> node_results,
                                         order |-> execution_order, run |-> <<>>]) IN
            /\ skipped' = s.sk
            /\ node_results' = s.res
            /\ execution_order' = s.order
            /\ to_run' = s.run
            /\ IF s.run = <<>>
               THEN /\ gLevelIdx' = gLevelIdx + 1
                    /\ UNCHANGED <<gPc, gRunIdx, gPending, level_results>>
               ELSE IF gPar /\ ~gStop /\ Len(s.run) > 1
               THEN /\ gPc' = "par"
                    /\ gPending' = SeqToSet(s.run)
                    /\ level_results' = [n \in NodeSet |-> NoResult]
                    /\ UNCHANGED <<gLevelIdx, gRunIdx>>
               ELSE /\ gPc' = "seq"
                    /\ gRunIdx' = 1
                    /\ UNCHANGED <<gLevelIdx, gPending, level_results>>
    /\ UNCHANGED <<nonGraph, gAgentOf, gLast, gwvars, gNodes, gDeps, gStop, gPar, gValidation, levels, gInvoked, gUpstream, gResult>>

\* one worker of the thread pool runs _execute_node and its future completes
GraphWorker(name, outcome) ==
    /\ gPc = "par"
    /\ name \in gPending
    /\ gPending' = gPending \ {name}
    /\ gInvoked' = [gInvoked EXCEPT ![name] = @ + 1]
    /\ gUpstream' = [gUpstream EXCEPT ![name] = upstream_slush(name, node_results)]
    /\ level_results' = [level_results EXCEPT ![name] = execute_node(name, outcome)]
    /\ gLast' = agent_slush_after(name, outcome)
    /\ gOut' = [gOut EXCEPT ![name] = outcome]
    /\ UNCHANGED <<nonGraph, gAgentOf, gWork, gDoneOrder, gNodes, gDeps, gStop, gPar, gPc, gValidation,
                   levels, gLevelIdx, to_run, gRunIdx, node_results, execution_order, skipped, gResult>>

\* a pool worker enters _execute_node and calls the agent, lines 242-267
GraphWorkerCall(name) ==
    /\ gPc = "par"
    /\ name \in gPending
    /\ gWork[name] = "idle"
    /\ gWork' = [gWork EXCEPT ![name] = "executing"]
    /\ gInvoked' = [gInvoked EXCEPT ![name] = @ + 1]
    /\ gUpstream' = [gUpstream EXCEPT ![name] = upstream_slush(name, node_results)]
    /\ UNCHANGED <<nonGraph, gAgentOf, gLast, gOut, gDoneOrder, gNodes, gDeps, gStop, gPar,
                   gPc, gValidation, levels, gLevelIdx, to_run, gRunIdx, gPending,
                   level_results, node_results, execution_order, skipped, gResult>>

\* the agent call of a worker ends.  A call that raises ends the worker
\* with the error result of lines 290-301; a call that returns has stored
\* its slush on the agent object and the worker has still to read it.
GraphWorkerReturn(name, outcome) ==
    /\ gPc = "par"
    /\ gWork[name] = "executing"
    /\ gOut' = [gOut EXCEPT ![name] = outcome]
    /\ gLast' = agent_slush_after(name, outcome)
    /\ IF outcome = "raises"
       THEN /\ gWork' = [gWork EXCEPT ![name] = "done"]
            /\ level_results' = [level_results EXCEPT ![name] = execute_node(name, outcome)]
            /\ gPending' = gPending \ {name}
            /\ gDoneOrder' = Append(gDoneOrder, name)
       ELSE /\ gWork' = [gWork EXCEPT ![name] = "returned"]
            /\ UNCHANGED <<level_results, gPending, gDoneOrder>>
    /\ UNCHANGED <<nonGraph, gAgentOf, gNodes, gDeps, gStop, gPar, gPc, gValidation, levels,
                   gLevelIdx, to_run, gRunIdx, node_results, execution_order, skipped,
                   gInvoked, gUpstream, gResult>>

\* lines 268-288: the worker reads node.agent.last_data_slush, builds the
\* node result and its future completes
GraphWorkerRead(name) ==
    /\ gPc = "par"
    /\ gWork[name] = "returned"
    /\ gWork' = [gWork EXCEPT ![name] = "done"]
    /\ level_results' = [level_results EXCEPT
                             ![name] = node_result(name, gOut[name], gLast[gAgentOf[name]])]
    /\ gPending' = gPending \ {name}
    /\ gDoneOrder' = Append(gDoneOrder, name)
    /\ UNCHANGED <<nonGraph, gAgentOf, gLast, gOut, gNodes, gDeps, gStop, gPar, gPc,
                   gValidation, levels, gLevelIdx, to_run, gRunIdx, node_results,
                   execution_order, skipped, gInvoked, gUpstream, gResult>>

\* lines 174-180: merge the level's results in to_run order
RECURSIVE MergeLevel(_, _)
MergeLevel(names, acc) ==
    IF names = <<>> THEN acc
    ELSE LET n == Head(names)
             r == level_results[n]
         IN  MergeLevel(Tail(names),
                 [res |-> [acc.res EXCEPT ![n] = r],
                  order |-> Append(acc.order, n),
                  sk |-> IF r.status = "error" THEN collect_dependents(n, acc.sk)
                         ELSE acc.sk])

\* line 174: the merge loop runs over to_run, not over the futures
merge_order_AsCompleted == gDoneOrder

merge_order == to_run

\* lines 164-171: the with block and the as_completed loop end when every
\* future of the level has completed
level_finished_FirstDone == gPending # SeqToSet(to_run)

level_finished == gPending = {}

GraphMerge ==
    /\ gPc = "par"
    /\ level_finished
    /\ LET m == MergeLevel(merge_order, [res |-> node_results, order |-> execution_order,
                                    sk |-> skipped]) IN
       /\ node_results' = m.res
       /\ execution_order' = m.order
       /\ skipped' = m.sk
    /\ gPc' = "level"
    /\ gLevelIdx' = gLevelIdx + 1
    /\ UNCHANGED <<nonGraph, gAgentOf, gLast, gwvars, gNodes, gDeps, gStop, gPar, gValidation, levels, to_run, gRunIdx,
                   gPending, level_results, gInvoked, gUpstream, gResult>>

\* lines 188-189: the failure of a node ends the run
abort_run_Never(result, stop) == FALSE

abort_run(result, stop) == result.status = "error" /\ stop

\* one iteration of the sequential loop, lines 183-204
GraphExecSeq(outcome) ==
    /\ gPc = "seq"
    /\ gRunIdx <= Len(to_run)
    /\ LET name == to_run[gRunIdx]
           result == execute_node(name, outcome)
           res1 == [node_results EXCEPT ![name] = result]
           order1 == Append(execution_order, name)
       IN
       /\ gInvoked' = [gInvoked EXCEPT ![name] = @ + 1]
       /\ gUpstream' = [gUpstream EXCEPT ![name] = upstream_slush(name, node_results)]
       /\ IF abort_run(result, gStop)
          THEN LET m == MarkSkipped(gNodes, res1, order1) IN
               /\ node_results' = m.res
               /\ execution_order' = m.order
               /\ gResult' = [status |-> "error", error |-> name]
               /\ gPc' = "done"
               /\ UNCHANGED <<skipped, gRunIdx, gLevelIdx>>
          ELSE /\ node_results' = res1
               /\ execution_order' = order1
               /\ skipped' = IF result.status = "error"
                             THEN collect_dependents(name, skipped) ELSE skipped
               /\ IF gRunIdx = Len(to_run)
                  THEN /\ gPc' = "level"
                       /\ gLevelIdx' = gLevelIdx + 1
                       /\ UNCHANGED gRunIdx
                  ELSE /\ gRunIdx' = gRunIdx + 1
                       /\ UNCHANGED <<gPc, gLevelIdx>>
               /\ UNCHANGED gResult
    /\ gLast' = agent_slush_after(to_run[gRunIdx], outcome)
    /\ gOut' = [gOut EXCEPT ![to_run[gRunIdx]] = outcome]
    /\ UNCHANGED <<nonGraph, gAgentOf, gWork, gDoneOrder, gNodes, gDeps, gStop, gPar, gValidation, levels, to_run,
                   gPending, level_results>>

\* after the last level, lines 206-214
GraphFinish ==
    /\ gPc = "level"
    /\ gLevelIdx > Len(levels)
    /\ gPc' = "done"
    /\ gResult' = FinalResult(node_results)
    /\ UNCHANGED <<nonGraph, gAgentOf, gLast, gwvars, gNodes, gDeps, gStop, gPar, gValidation, levels, gLevelIdx, to_run,
                   gRunIdx, gPending, level_results, node_results,
                   execution_order, skipped, gInvoked, gUpstream>>

GraphNext ==
    \/ GraphValidate
    \/ GraphRunStart
    \/ GraphBeginLevel
    \/ \E n \in NodeSet, o \in AgentOutcomes : GraphWorker(n, o)
    \/ GraphMerge
    \/ \E o \in AgentOutcomes : GraphExecSeq(o)
    \/ GraphFinish

\* ---- graphs whose nodes may wrap one agent instance ---------------------
\* the nodes before name in declaration order
Earlier(name) == {gNodes[j] : j \in 1..(IndexOf(gNodes, name) - 1)}

\* valid graphs: the dependencies of a node are earlier nodes, listed in
\* declaration order; a node wraps its own agent instance or the instance
\* of the first node
GraphPoolInit ==
    /\ \E n \in 2..MaxNodes : gNodes = SubSeq(NodePool, 1, n)
    /\ gDeps \in [NodeSet -> DepLists(NodeSet)]
    /\ \A x \in NodeSet :
           /\ SeqToSet(gDeps[x]) \subseteq Earlier(x)
           /\ Len(gDeps[x]) = 2 => IndexOf(gNodes, gDeps[x][1]) < IndexOf(gNodes, gDeps[x][2])
    /\ gAgentOf \in [NodeSet -> NodeSet]
    /\ \A x \in NodeSet : gAgentOf[x] \in {x, gNodes[1]}
    /\ gStop = FALSE
    /\ gPar = TRUE
    /\ gPc = "idle"
    /\ gValidation = NoValidation
    /\ levels = <<>>
    /\ gLevelIdx = 0
    /\ to_run = <<>>
    /\ gRunIdx = 0
    /\ gPending = {}
    /\ level_results = [n \in NodeSet |-> NoResult]
    /\ node_results = [n \in NodeSet |-> NoResult]
    /\ execution_order = <<>>
    /\ skipped = {}
    /\ gInvoked = [n \in NodeSet |-> 0]
    /\ gUpstream = [n \in NodeSet |-> NoUpstream]
    /\ gResult = NoGraphResult
    /\ gLast = [n \in NodeSet |-> NoSlush]
    /\ WorkersIdle

GraphPoolNext ==
    \/ GraphRunDefault
    \/ GraphBeginLevel
    \/ \E n \in NodeSet : GraphWorkerCall(n)
    \/ \E n \in NodeSet, o \in NodeOutcomes : GraphWorkerReturn(n, o)
    \/ \E n \in NodeSet : GraphWorkerRead(n)
    \/ GraphMerge
    \/ \E o \in NodeOutcomes : GraphExecSeq(o)
    \/ GraphFinish

\* ========================================================================
\* Properties of AgentGraph
\* ========================================================================
\* b depends on a (a is an existing node)
DependsOn(b, a) == a \in NodeSet /\ InSeq(a, gDeps[b])

\* the nodes that reach a node of S along one or more dependency edges
RECURSIVE DescendantsOf(_)
DescendantsOf(S) ==
    LET more == {b \in NodeSet : \E a \in S : DependsOn(b, a)} \ S
    IN  IF more = {} THEN S ELSE DescendantsOf(S \cup more)

Descendants(a) == DescendantsOf({b \in NodeSet : DependsOn(b, a)})

\* the agent call of node a has failed (its result may still await the merge)
NodeFailed(a) ==
    node_results[a].status = "error" \/ level_results[a].status = "error"

\* C1: when the agent call of a node A fails, no node that depends on A,
\* directly or through other nodes, is ever invoked, and once run() has
\* returned each of them has status 'skipped'.
C1_SkipPropagates ==
    \A a \in NodeSet : NodeFailed(a) =>
        \A b \in Descendants(a) :
            /\ gInvoked[b] = 0
            /\ level_results[b].status = "none"
            /\ node_results[b].status \in {"none", "skipped"}
            /\ gPc = "done" => node_results[b].status = "skipped"

\* a chain a <- b <- c without stop_on_error: a failed, b and c were skipped
C1_Witness ==
    /\ gPc = "done"
    /\ ~gStop
    /\ \E a, b, c \in NodeSet :
         /\ DependsOn(b, a) /\ DependsOn(c, b) /\ ~DependsOn(c, a)
         /\ node_results[a].status = "error"
         /\ node_results[b].status = "skipped"
         /\ node_results[c].status = "skipped"
         /\ gInvoked[b] = 0 /\ gInvoked[c] = 0

\* the graph has a dependency cycle
OnCycle(n) == n \in Descendants(n)

HasCycle == \E n \in NodeSet : OnCycle(n)

\* p is a dependency path that returns to its first node
IsCyclePath(p) ==
    /\ Len(p) >= 2
    /\ p[1] = p[Len(p)]
    /\ \A i \in 1..(Len(p) - 1) : p[i] \in NodeSet /\ DependsOn(p[i], p[i + 1])

\* C2: for a graph with a dependency cycle validate() returns valid=false
\* with a 'Cycle' error, and every path such an error prints is a cycle.
C2_CycleReported ==
    (gValidation.outcome # "none" /\ HasCycle) =>
        /\ gValidation.outcome = "returned"
        /\ ~gValidation.valid
        /\ \E i \in DOMAIN gValidation.errors : gValidation.errors[i].kind = "cycle"
        /\ \A i \in DOMAIN gValidation.errors :
               gValidation.errors[i].kind = "cycle" =>
                   IsCyclePath(gValidation.errors[i].path)

\* C3: when validate() returns valid=false, run() raises the validation
\* error and no agent has been invoked nor any result recorded.
C3_InvalidGraphNeverRuns ==
    (gPc # "idle" /\ gValidation.outcome = "returned" /\ ~gValidation.valid) =>
        /\ gPc = "raised"
        /\ \A n \in NodeSet : gInvoked[n] = 0 /\ node_results[n].status = "none"
        /\ execution_order = <<>>
        /\ gResult = NoGraphResult

\* run() has raised on a graph whose only problem is a cycle beside a node
\* that has no dependencies at all
C3_Witness ==
    /\ gPc = "raised"
    /\ \E i \in DOMAIN gValidation.errors : gValidation.errors[i].kind = "cycle"
    /\ \A i \in DOMAIN gValidation.errors : gValidation.errors[i].kind = "cycle"
    /\ \E n \in NodeSet : gDeps[n] = <<>>

\* index of the topological level of a node
LevelOf(n) == CHOOSE k \in DOMAIN levels : InSeq(n, levels[k])

\* C4: the execution order of a finished run holds every node exactly once
\* and is in topological-level order.
C4_OrderByLevel ==
    gPc = "done" =>
        /\ Len(execution_order) = Len(gNodes)
        /\ SeqToSet(execution_order) = NodeSet
        /\ \A i, j \in DOMAIN execution_order :
               i < j => LevelOf(execution_order[i]) <= LevelOf(execution_order[j])

\* the nodes whose agent call has failed
FailedNodes == {n \in NodeSet : NodeFailed(n)}

\* C11: with stop_on_error, as soon as one node has failed run() has
\* returned status 'error' carrying that node's failure message, no agent
\* was invoked after the failing one, and every node that did not run has
\* status 'skipped'.
C11_StopOnErrorAborts ==
    (gStop /\ FailedNodes # {}) =>
        /\ gPc = "done"
        /\ \E f \in NodeSet :
             /\ FailedNodes = {f}
             /\ gResult = [status |-> "error", error |-> f]
             /\ execution_order[Len(SelectSeq(execution_order,
                                    LAMBDA n : gInvoked[n] = 1))] = f
        /\ \A n \in NodeSet :
             /\ gInvoked[n] <= 1
             /\ gInvoked[n] = 0 <=> node_results[n].status = "skipped"
             /\ gInvoked[n] = 1 => node_results[n].status \in {"success", "error"}

\* stop_on_error: a node succeeded, the next one failed and a third node
\* that does not depend on the failed one was left out
C11_Witness ==
    /\ gStop
    /\ gPc = "done"
    /\ gResult.status = "error"
    /\ \E s, f, k \in NodeSet :
         /\ node_results[s].status = "success"
         /\ node_results[f].status = "error"
         /\ node_results[k].status = "skipped" /\ gInvoked[k] = 0
         /\ k \notin Descendants(f)

\* the nodes that n depends on, directly or through other nodes
Ancestors(n) == {a \in NodeSet : n \in Descendants(a)}

\* the agent call made for node n has ended
CallEnded(n) == gOut[n] # "none"

\* C40: a node has status 'error' only when its agent's execute call
\* raised.  A call that returns a result of status 'error' gives node
\* status 'success'; a run none of whose calls raised has invoked every
\* node, with or without stop_on_error, and has status 'success'.
C40_ErrorOnlyWhenRaised ==
    /\ \A n \in NodeSet :
           (node_results[n].status = "error" \/ level_results[n].status = "error") =>
               gOut[n] = "raises"
    /\ \A n \in NodeSet :
           (gOut[n] = "returns_error" /\ node_results[n].status # "none") =>
               node_results[n].status = "success"
    /\ (gPc = "done" /\ \A n \in NodeSet : gOut[n] # "raises") =>
           /\ \A n \in NodeSet : gInvoked[n] = 1 /\ node_results[n].status = "success"
           /\ gResult.status = "success"

\* C31: while the workers of a parallel level run, the node-result map
\* and the execution order do not change; they change in one step of the
\* scheduling loop, after every worker has finished, which stores for each
\* node of the level the result of its own worker and appends the nodes in
\* to_run order, whatever the order in which the workers finished.
C31_MergedByScheduler ==
    [][gPc = "par" =>
          \/ /\ node_results' = node_results
             /\ execution_order' = execution_order
          \/ /\ gPending = {}
             /\ \A n \in SeqToSet(to_run) : gWork[n] = "done"
             /\ node_results' = [n \in NodeSet |->
                                    IF InSeq(n, to_run) THEN level_results[n]
                                    ELSE node_results[n]]
             /\ execution_order' = execution_order \o to_run]_vars

\* a level of two workers was merged after the second node finished first
C31_Witness ==
    /\ gPc = "level"
    /\ \E x, y \in NodeSet :
         /\ to_run = <<x, y>>
         /\ gDoneOrder = <<y, x>>
         /\ execution_order = <<x, y>>
         /\ node_results[x] = level_results[x]
         /\ node_results[y] = level_results[y]
         /\ node_results[x].status = "success"

\* the agent call of node n is in progress in a pool worker
InProgress(n) == gWork[n] \in {"executing", "returned"}

\* C32: once the agent of a node has been started, every node of an
\* earlier level has its final result and no agent call of an earlier
\* level is in progress; in particular every dependency of the node has
\* completed.
C32_LevelByLevel ==
    \A n \in NodeSet : gInvoked[n] > 0 =>
        /\ \A m \in NodeSet : LevelOf(m) < LevelOf(n) =>
               /\ ~InProgress(m)
               /\ node_results[m].status \in {"success", "error", "skipped"}
               /\ gInvoked[m] = 0 <=> node_results[m].status = "skipped"
        /\ \A d \in SeqToSet(gDeps[n]) :
               /\ LevelOf(d) < LevelOf(n)
               /\ node_results[d].status = "success"

\* two agents of the second level are running at once; the node they
\* both depend on has finished
C32_Witness ==
    \E a, x, y \in NodeSet :
        /\ x # y
        /\ gDeps[x] = <<a>> /\ gDeps[y] = <<a>>
        /\ InProgress(x) /\ InProgress(y)
        /\ gInvoked[a] = 1
        /\ LevelOf(a) = 1 /\ LevelOf(x) = 2

\* the result recorded for node n, merged or still in level_results
ResultOfNode(n) ==
    IF node_results[n].status # "none" THEN node_results[n] ELSE level_results[n]

\* C36: in every interleaving of the workers of a parallel level, the
\* data_slush of a node's result is the slush its own agent call emitted
\* (the fallback slush naming the node when the call emitted none), also
\* when nodes of the level wrap one agent instance.
C36_OwnSlushPerNode ==
    \A n \in NodeSet : ResultOfNode(n).status = "success" =>
        ResultOfNode(n).data_slush =
            IF gOut[n] = "ok_slush" THEN <<"own", n>>
            ELSE <<"auto", n, result_status(gOut[n])>>

\* the same for graphs in which every node wraps an agent of its own
C36_OwnAgents ==
    (\A n \in NodeSet : gAgentOf[n] = n) => C36_OwnSlushPerNode

\* two nodes of one parallel level, each with its own agent, have emitted
\* their slush and the later one finished first
C36_OwnAgentsParallel ==
    \E x, y \in NodeSet :
        /\ gAgentOf[x] = x /\ gAgentOf[y] = y
        /\ gDoneOrder = <<y, x>>
        /\ to_run = <<x, y>>
        /\ level_results[x].data_slush = <<"own", x>>
        /\ level_results[y].data_slush = <<"own", y>>

\* the same for the calls that return a JSON object
C40_ObjectResults ==
    (\A n \in NodeSet : gOut[n] # "returns_list") => C40_ErrorOnlyWhenRaised

\* a finished run in which a call returned status 'error' and a dependent
\* of its node was invoked afterwards
C40_ReturnedError ==
    /\ gPc = "done"
    /\ gResult.status = "success"
    /\ \E a, b \in NodeSet :
         /\ DependsOn(b, a)
         /\ gOut[a] = "returns_error"
         /\ gInvoked[b] = 1

\* C12: without stop_on_error run() never returns status 'error'; the
\* status is 'success' iff every node has status 'success' and 'partial'
\* otherwise; no agent is invoked twice, and every node none of whose
\* ancestors failed has been invoked exactly once when run() returns.
C12_ContinuesWithoutStop ==
    /\ (~gStop) => \A n \in NodeSet : gInvoked[n] <= 1
    /\ (~gStop /\ gPc = "done") =>
        /\ gResult.status \in {"success", "partial"}
        /\ gResult.status = "success" <=>
               \A n \in NodeSet : node_results[n].status = "success"
        /\ \A n \in NodeSet :
               (\A a \in Ancestors(n) : node_results[a].status # "error") =>
                   /\ gInvoked[n] = 1
                   /\ node_results[n].status \in {"success", "error"}

\* without stop_on_error: a failed, while in another branch b and then its
\* dependent c ran, and the run ended 'partial'
C12_Witness ==
    /\ ~gStop
    /\ gPc = "done"
    /\ gResult.status = "partial"
    /\ \E a, b, c \in NodeSet :
         /\ node_results[a].status = "error"
         /\ gDeps[a] = <<>> /\ gDeps[b] = <<>> /\ gDeps[c] = <<b>>
         /\ node_results[b].status = "success" /\ gInvoked[b] = 1
         /\ node_results[c].status = "success" /\ gInvoked[c] = 1

\* C13: every invoked node that has dependencies was called with an
\* upstream_slush map whose keys are exactly its dependency names, each
\* mapped to the data_slush of that dependency's result; an invoked node
\* without dependencies was called without upstream_slush.
C13_UpstreamSlushKeys ==
    \A n \in NodeSet : gInvoked[n] > 0 =>
        IF gDeps[n] = <<>>
        THEN gUpstream[n] = NoUpstream
        ELSE /\ gUpstream[n].given
             /\ DOMAIN gUpstream[n].map = SeqToSet(gDeps[n])
             /\ \A d \in SeqToSet(gDeps[n]) :
                    gUpstream[n].map[d] = node_results[d].data_slush

\* a node with two dependencies was invoked; one dependency emitted its
\* own slush, the other emitted none
C13_Witness ==
    \E n, d, e \in NodeSet :
        /\ gInvoked[n] = 1
        /\ gDeps[n] = <<d, e>>
        /\ node_results[d].data_slush = <<"own", d>>
        /\ node_results[e].data_slush = <<"auto", e, "success">>
        /\ gUpstream[n].map = [x \in {d, e} |-> node_results[x].data_slush]

\* the (node, dependency) pairs whose dependency is not a node
MissingPairs == {e \in SeqToSet(AllEdges) : e[2] \notin NodeSet}

\* C14: for a graph whose dependencies all exist and form no cycle,
\* validate() returns valid=true and an empty error list.
C14_AcyclicIsValid ==
    (gValidation.outcome # "none" /\ MissingPairs = {} /\ ~HasCycle) =>
        gValidation = [outcome |-> "returned", valid |-> TRUE, errors |-> <<>>]

\* validate() has returned for a graph in which a node is reached along two
\* paths: c depends on a and b, and b depends on a
C14_Witness ==
    /\ gValidation.outcome = "returned"
    /\ gValidation.valid
    /\ \E a, b, c \in NodeSet :
         /\ gDeps[a] = <<>>
         /\ gDeps[b] = <<a>>
         /\ SeqToSet(gDeps[c]) = {a, b}

\* C15: validate() returns a list with exactly one 'does not exist' error
\* for each (node, dependency) pair whose dependency is not a node, with a
\* 'Cycle' error beside them when the graph also has a cycle, and valid is
\* true iff the list is empty.
C15_AllProblemsReported ==
    /\ (gValidation.outcome = "returned") =>
        /\ \A e \in MissingPairs :
               Cardinality({i \in DOMAIN gValidation.errors :
                               gValidation.errors[i] = MissingError(e)}) = 1
        /\ \A i \in DOMAIN gValidation.errors :
               gValidation.errors[i].kind = "missing" =>
                   <<gValidation.errors[i].node, gValidation.errors[i].dep>> \in MissingPairs
        /\ gValidation.valid <=> gValidation.errors = <<>>
    /\ (gValidation.outcome # "none" /\ MissingPairs # {} /\ HasCycle) =>
        /\ gValidation.outcome = "returned"
        /\ \E i \in DOMAIN gValidation.errors : gValidation.errors[i].kind = "missing"
        /\ \E i \in DOMAIN gValidation.errors : gValidation.errors[i].kind = "cycle"

\* ========================================================================
\* AgentChain
\* ========================================================================
\* the slush the agent call of step i put in its result
OwnSlush(i) == <<"own", i>>

\* agent.slush_out(signals={step_name, step_result_status})
PlaceholderSlush(i, rstatus) == <<"auto", i, rstatus>>

\* str(e) of the exception caught in step i
ErrorMessage(i) == <<"message", i>>

NoPayload == [status |-> "none", step |-> 0]

NoChainResult ==
    [status |-> "none", final_result |-> NoPayload, final_slush |-> NoSlush,
     failed_step |-> 0, error |-> <<"none">>]

\* the agent objects the steps can wrap
ChainAgents == {"A", "B"}

\* the keys of the kwargs dicts: an ordinary one and the reserved one
Keys == {"x", "upstream_slush"}

\* a key the dict does not hold
NoValue == <<"absent">>

NoKwargs == [k \in Keys |-> NoValue]

\* a dict that holds the given keys, each value tagged with where it is from
FromSource(keys, tag) == [k \in Keys |-> IF k \in keys THEN <<tag>> ELSE NoValue]

\* dict.update: the entries of top replace those of base
update_KeepBase(base, top) ==
    [k \in Keys |-> IF base[k] # NoValue THEN base[k] ELSE top[k]]

update(base, top) ==
    [k \in Keys |-> IF top[k] # NoValue THEN top[k] ELSE base[k]]

\* step.transform: none, one that raises, or one that returns the given keys
NoTransform == [present |-> FALSE, raises |-> FALSE, keys |-> {}]

Transforms ==
    {NoTransform, [present |-> TRUE, raises |-> TRUE, keys |-> {}]}
    \cup {[present |-> TRUE, raises |-> FALSE, keys |-> K] : K \in SUBSET Keys}

\* step.kwargs and step.transform of one ChainStep
StepConfigs == [static : SUBSET Keys, transform : Transforms]

NoCfg == [static |-> {}, transform |-> NoTransform]

\* step.transform was not called
NoTransformCall == [called |-> FALSE, payload |-> NoPayload, slush |-> NoSlush]

\* line 89: step.transform(last_result, current_slush)
transform_call(last, slush) == [called |-> TRUE, payload |-> last, slush |-> slush]

\* lines 124-145: the except branch builds error_result and leaves
\* last_result as it is
payload_after_failure_TakesError(last, error_result) == error_result

payload_after_failure(last, error_result) == last

\* line 88: if step.transform and last_result is not None
transform_applies(cfg, last) == cfg.transform.present /\ last # NoPayload

\* lines 79-94
build_kwargs(i, initial, cfg, last, slush) ==
    LET k0 == FromSource(cfg.static, "static")
        k1 == IF i = 1 /\ initial # {}
              THEN update(FromSource(initial, "initial"), k0) ELSE k0
        k2 == IF transform_applies(cfg, last)
              THEN update(k1, FromSource(cfg.transform.keys, "transform")) ELSE k1
    IN  IF slush # NoSlush THEN [k2 EXCEPT !["upstream_slush"] = slush] ELSE k2

\* how one agent.execute call can end
StepOutcomes == {"ok_slush", "ok", "returns_error", "raises", "times_out"}

\* how an abandoned agent.execute call can end
LateOutcomes == {"ok_slush", "ok", "raises"}

NoPending == [agent |-> "none", outcome |-> "none"]

\* BasicAgent.execute: _last_data_slush after a call of step i that returned
emitted(i, outcome) == IF outcome = "ok_slush" THEN OwnSlush(i) ELSE NoSlush

\* the parsed result of a call that returned
ResultOf(i, outcome) ==
    [status |-> IF outcome = "returns_error" THEN "error" ELSE "success", step |-> i]

\* lines 106-112
SlushAfter(i, result, data_slush) ==
    IF data_slush # NoSlush THEN data_slush
    ELSE PlaceholderSlush(i, result.status)

\* lines 124-134: current_slush is left as it is when a step fails
carried_after_failure_Cleared(slush) == NoSlush

carried_after_failure(slush) == slush

\* line 136: if self._stop_on_error
halt_on_failure_Never(stop) == FALSE

halt_on_failure(stop) == stop

\* line 147
has_errors(steps) == \E k \in DOMAIN steps : steps[k].result.status = "error"

ChainQuiet ==
    /\ cN = 0
    /\ cStop = TRUE
    /\ cTimeout = FALSE
    /\ cInitial = {}
    /\ cPc = "idle"
    /\ cIdx = 0
    /\ cCfg = NoCfg
    /\ kwargs = NoKwargs
    /\ cXform = NoTransformCall
    /\ cPending = NoPending
    /\ cAgentSlush = <<>>
    /\ cZombies = {}
    /\ step_results = <<>>
    /\ current_slush = NoSlush
    /\ last_result = NoPayload
    /\ cInvoked = <<>>
    /\ cResult = NoChainResult

ChainInit ==
    /\ cN \in 0..MaxSteps
    /\ cStop \in BOOLEAN
    /\ cTimeout \in BOOLEAN
    /\ cInitial = {}
    /\ cPc = "idle"
    /\ cIdx = 0
    /\ cCfg = NoCfg
    /\ kwargs = NoKwargs
    /\ cXform = NoTransformCall
    /\ cPending = NoPending
    /\ cAgentSlush = [a \in ChainAgents |-> NoSlush]
    /\ cZombies = {}
    /\ step_results = <<>>
    /\ current_slush = NoSlush
    /\ last_result = NoPayload
    /\ cInvoked = [i \in 1..cN |-> 0]
    /\ cResult = NoChainResult

\* run(initial_kwargs), lines 68-73
ChainRunStart(initial) ==
    /\ cPc = "idle"
    /\ cPc' = "loop"
    /\ cIdx' = 1
    /\ cInitial' = initial
    /\ UNCHANGED <<nonChain, cN, cStop, cTimeout, cCfg, kwargs, cXform, cPending, cAgentSlush,
                   cZombies, step_results, current_slush, last_result, cInvoked, cResult>>

\* top of one iteration of the for loop, lines 75-94.  The step's kwargs and
\* transform are fixed by add_step; run() reads them here for the first time.
ChainBuild(cfg) ==
    /\ cPc = "loop"
    /\ cIdx <= cN
    /\ cCfg' = cfg
    /\ cXform' = IF transform_applies(cfg, last_result)
                 THEN transform_call(last_result, current_slush)
                 ELSE NoTransformCall
    /\ IF transform_applies(cfg, last_result) /\ cfg.transform.raises
       THEN /\ cPc' = "raised"
            /\ UNCHANGED kwargs
       ELSE /\ cPc' = "built"
            /\ kwargs' = build_kwargs(cIdx, cInitial, cfg, last_result, current_slush)
    /\ UNCHANGED <<nonChain, cN, cStop, cTimeout, cInitial, cIdx, cPending, cAgentSlush,
                   cZombies, step_results, current_slush, last_result, cInvoked, cResult>>

\* lines 96-97 and _execute_with_timeout: the agent is called and the call
\* returns, raises, or is abandoned by the timeout while it still runs
ChainExecute(agent, outcome) ==
    /\ cPc = "built"
    /\ outcome = "times_out" => cTimeout
    /\ cPc' = "called"
    /\ cInvoked' = [cInvoked EXCEPT ![cIdx] = @ + 1]
    /\ cPending' = [agent |-> agent, outcome |-> outcome]
    /\ cAgentSlush' = IF outcome \in {"ok_slush", "ok", "returns_error"}
                      THEN [cAgentSlush EXCEPT ![agent] = emitted(cIdx, outcome)]
                      ELSE cAgentSlush
    /\ cZombies' = IF outcome = "times_out"
                   THEN cZombies \cup {[step |-> cIdx, agent |-> agent]}
                   ELSE cZombies
    /\ UNCHANGED <<nonChain, cN, cStop, cTimeout, cInitial, cIdx, cCfg, kwargs, cXform,
                   step_results, current_slush, last_result, cResult>>

\* the thread of a call that timed out ends: execute stores its slush
ChainLateReturn(z, outcome) ==
    /\ z \in cZombies
    /\ cZombies' = cZombies \ {z}
    /\ cAgentSlush' = IF outcome = "raises" THEN cAgentSlush
                      ELSE [cAgentSlush EXCEPT ![z.agent] = emitted(z.step, outcome)]
    /\ UNCHANGED <<nonChain, cN, cStop, cTimeout, cInitial, cPc, cIdx, cCfg, kwargs, cXform,
                   cPending, step_results, current_slush, last_result, cInvoked, cResult>>

\* rest of the iteration, lines 98-145
ChainCollect ==
    /\ cPc = "called"
    /\ cPending' = NoPending
    /\ cCfg' = NoCfg
    /\ kwargs' = NoKwargs
    /\ cXform' = NoTransformCall
    /\ IF cPending.outcome \in {"ok_slush", "ok", "returns_error"}
       THEN LET result == ResultOf(cIdx, cPending.outcome)
                data_slush == cAgentSlush[cPending.agent]
            IN
            /\ current_slush' = SlushAfter(cIdx, result, data_slush)
            /\ last_result' = result
            /\ step_results' = Append(step_results,
                   [name |-> cIdx, result |-> result, raised |-> FALSE,
                    outcome |-> cPending.outcome,
                    data_slush |-> SlushAfter(cIdx, result, data_slush)])
            /\ cIdx' = cIdx + 1
            /\ cPc' = "loop"
            /\ UNCHANGED cResult
       ELSE LET error_result == [status |-> "error", step |-> cIdx] IN
            /\ current_slush' = carried_after_failure(current_slush)
            /\ step_results' = Append(step_results,
                   [name |-> cIdx, result |-> error_result, raised |-> TRUE,
                    outcome |-> cPending.outcome,
                    data_slush |-> carried_after_failure(current_slush)])
            /\ last_result' = payload_after_failure(last_result, error_result)
            /\ IF halt_on_failure(cStop)
               THEN /\ cResult' = [status |-> "error", final_result |-> error_result,
                                   final_slush |-> carried_after_failure(current_slush),
                                   failed_step |-> cIdx,
                                   error |-> ErrorMessage(cIdx)]
                    /\ cPc' = "done"
                    /\ UNCHANGED cIdx
               ELSE /\ cIdx' = cIdx + 1
                    /\ cPc' = "loop"
                    /\ UNCHANGED cResult
    /\ UNCHANGED <<nonChain, cN, cStop, cTimeout, cInitial, cAgentSlush, cZombies, cInvoked>>

\* after the loop, lines 147-155
ChainFinish ==
    /\ cPc = "loop"
    /\ cIdx > cN
    /\ cPc' = "done"
    /\ cResult' = [status |-> IF has_errors(step_results) THEN "partial" ELSE "success",
                   final_result |-> last_result, final_slush |-> current_slush,
                   failed_step |-> 0, error |-> <<"none">>]
    /\ UNCHANGED <<nonChain, cN, cStop, cTimeout, cInitial, cIdx, cCfg, kwargs, cXform,
                   cPending, cAgentSlush, cZombies, step_results, current_slush, last_result,
                   cInvoked>>

ChainNext ==
    \/ \E initial \in SUBSET Keys : ChainRunStart(initial)
    \/ \E cfg \in StepConfigs : ChainBuild(cfg)
    \/ \E a \in ChainAgents, o \in StepOutcomes : ChainExecute(a, o)
    \/ \E z \in cZombies, o \in LateOutcomes : ChainLateReturn(z, o)
    \/ ChainCollect
    \/ ChainFinish

\* ========================================================================
\* Properties of AgentChain
\* ========================================================================
\* C5: with stop_on_error, a step whose agent call raises is the last entry
\* of the steps list, run() has returned status 'error' naming that step and
\* its message, and no later step has been invoked.
C5_ChainHaltsOnFailure ==
    cStop =>
        \A k \in DOMAIN step_results : step_results[k].raised =>
            /\ cPc = "done"
            /\ k = Len(step_results)
            /\ cResult.status = "error"
            /\ cResult.failed_step = step_results[k].name
            /\ cResult.error = ErrorMessage(step_results[k].name)
            /\ \A j \in 1..cN : j > step_results[k].name => cInvoked[j] = 0

\* the second of three steps raised after the first had succeeded
C5_Witness ==
    /\ cStop
    /\ cN = 3
    /\ cPc = "done"
    /\ Len(step_results) = 2
    /\ ~step_results[1].raised
    /\ step_results[2].raised
    /\ cInvoked = <<1, 1, 0>>


\* the slush carried into step k
SlushBefore(k) == IF k = 1 THEN NoSlush ELSE step_results[k - 1].data_slush

\* C16: with stop_on_error=false a failing step is recorded with an error
\* result, the carried slush after it is the one carried into it, the next
\* step is built from that same slush, and a run that returns after such a
\* failure has gone through every step and has status 'partial'.
C16_FailureKeepsSlush ==
    (~cStop) =>
        \A k \in DOMAIN step_results : step_results[k].raised =>
            /\ step_results[k].name = k
            /\ step_results[k].result.status = "error"
            /\ step_results[k].data_slush = SlushBefore(k)
            /\ (Len(step_results) = k) => current_slush = SlushBefore(k)
            /\ (cPc \in {"built", "called"} /\ cIdx = k + 1 /\ SlushBefore(k) # NoSlush) =>
                   kwargs["upstream_slush"] = SlushBefore(k)
            /\ (cPc = "done") =>
                   /\ Len(step_results) = cN
                   /\ \A j \in 1..cN : cInvoked[j] = 1
                   /\ cResult.status = "partial"

\* stop_on_error=false: step 1 emitted a slush, step 2 failed, and step 3
\* was called with the slush of step 1
C16_Witness ==
    /\ ~cStop
    /\ cPc = "called"
    /\ cIdx = 3
    /\ step_results[1].data_slush = OwnSlush(1)
    /\ step_results[2].raised
    /\ kwargs["upstream_slush"] = OwnSlush(1)

\* the slush the step's own agent call emitted or, if it emitted none, the
\* placeholder that names the step and the status of its result
ExpectedSlush(k) ==
    IF step_results[k].outcome = "ok_slush" THEN OwnSlush(k)
    ELSE PlaceholderSlush(k, step_results[k].result.status)

\* C17: after a step succeeds the carried slush is the slush its agent call
\* emitted or else the placeholder; the next step is called with exactly
\* this value under upstream_slush; final_slush is the carried slush at the
\* end of the run.
C17_CarriedSlush ==
    /\ \A k \in DOMAIN step_results : ~step_results[k].raised =>
           /\ step_results[k].data_slush = ExpectedSlush(k)
           /\ (Len(step_results) = k) => current_slush = ExpectedSlush(k)
           /\ (cPc \in {"built", "called"} /\ cIdx = k + 1) =>
                  kwargs["upstream_slush"] = ExpectedSlush(k)
    /\ (cPc = "done") => cResult.final_slush = current_slush

\* the value a key must have by the precedence of the sources
ByPrecedence(k) ==
    IF k = "upstream_slush" /\ current_slush # NoSlush THEN current_slush
    ELSE IF cCfg.transform.present /\ last_result # NoPayload
            /\ k \in cCfg.transform.keys THEN <<"transform">>
    ELSE IF k \in cCfg.static THEN <<"static">>
    ELSE IF cIdx = 1 /\ k \in cInitial THEN <<"initial">>
    ELSE NoValue

\* C18: in the kwargs a step's agent is called with, the carried slush (when
\* there is one) holds the key upstream_slush, and for the rest the
\* transform output wins over the step's static kwargs, which win over the
\* initial kwargs; only the first step is given the initial kwargs.
C18_KwargsPrecedence ==
    (cPc \in {"built", "called"}) =>
        /\ \A k \in Keys : kwargs[k] = ByPrecedence(k)
        /\ (cIdx > 1) => \A k \in Keys : kwargs[k] # <<"initial">>

\* the second step is called with a slush carried from the first; run() was
\* given initial kwargs and the step's static kwargs and transform output
\* all hold both keys
C18_Witness ==
    /\ cPc = "called"
    /\ cIdx = 2
    /\ cInitial = Keys
    /\ cCfg.static = Keys
    /\ cCfg.transform.keys = Keys
    /\ current_slush = OwnSlush(1)
    /\ kwargs = [k \in Keys |-> IF k = "x" THEN <<"transform">> ELSE OwnSlush(1)]

\* the recorded steps whose agent call returned
ReturnedSteps == {k \in DOMAIN step_results : ~step_results[k].raised}

\* C39: the transform of a step is called iff the step has one and an
\* earlier step's call returned; it is called with the result of the
\* latest such step and the slush carried at that moment, hence never for
\* the first step and never with the error result of a step that failed.
C39_TransformArguments ==
    (cPc \in {"built", "called", "raised"}) =>
        /\ cXform.called <=> (cCfg.transform.present /\ ReturnedSteps # {})
        /\ cXform.called =>
               /\ cIdx > 1
               /\ \E k \in ReturnedSteps :
                      /\ \A j \in ReturnedSteps : j <= k
                      /\ cXform.payload = step_results[k].result
                      /\ cXform.payload.step = step_results[k].name
               /\ cXform.slush = current_slush
               /\ cXform.slush # NoSlush

\* the third step's transform is called with the result of the first step
\* after the second step failed without stop_on_error
C39_Witness ==
    /\ cPc = "built"
    /\ cIdx = 3
    /\ ~cStop
    /\ ~step_results[1].raised
    /\ step_results[2].raised
    /\ cXform = transform_call(step_results[1].result, step_results[1].data_slush)

\* the second step has a transform and the first step failed: no call
C39_NotCalledAfterFailure ==
    /\ cPc = "built"
    /\ cIdx = 2
    /\ step_results[1].raised
    /\ cCfg.transform.present
    /\ ~cXform.called

\* C33: the agent calls of a chain run never overlap: while the call
\* made for a step is still running, no later step's agent has been
\* called, with or without step_timeout and stop_on_error.
C33_OneCallAtATime ==
    \A z \in cZombies : \A j \in 1..cN : j > z.step => cInvoked[j] = 0

\* without stop_on_error the call of the first step timed out and is still
\* running when the agent of the second step has been called
C33_Overlap ==
    /\ ~cStop
    /\ cPc = "called"
    /\ cIdx = 2
    /\ \E z \in cZombies : z.step = 1

\* run() stopped at a failing step before the end of the chain's loop
HaltedEarly ==
    /\ step_results # <<>>
    /\ step_results[Len(step_results)].raised
    /\ cResult.failed_step = step_results[Len(step_results)].name
    /\ \A j \in 1..cN : j > cResult.failed_step => cInvoked[j] = 0

\* C19: the returned status is 'error' exactly when stop_on_error is set and
\* the run was halted early by a failing step; it is 'partial' only when
\* stop_on_error is false and some step failed; with stop_on_error set it
\* is never 'partial', whether the agents raise, return a success result
\* or return a result whose status field is 'error'.
C19_ErrorVersusPartial ==
    (cPc = "done") =>
        /\ cResult.status = "error" <=> (cStop /\ HaltedEarly)
        /\ cResult.status = "partial" =>
               (~cStop /\ \E k \in DOMAIN step_results :
                              step_results[k].result.status = "error")
        /\ cStop => cResult.status # "partial"

\* ========================================================================
\* BroadcastManager
\* ========================================================================
\* most target agents a group is given
MaxTargets == 3

AgentPool == <<"a1", "a2", "a3", "a4", "a5">>

AgentIds == SeqToSet(SubSeq(AgentPool, 1, MaxTargets))

GroupIds == {"g1"}

\* the ids broadcast() is called with: those of the groups and another one
BroadcastIds == GroupIds \cup {"g2"}

Modes == {"all", "race", "fallback", "other"}

NoGroup == [agentIds |-> <<>>, mode |-> "none", timeout |-> FALSE]

\* sequences of pairwise distinct agent ids
DistinctSeqs(S, n) ==
    {q \in UNION {[1..k -> S] : k \in 0..n} :
        \A i, j \in DOMAIN q : i # j => q[i] # q[j]}

\* lists that name one agent twice
RepeatLists(S) == {<<t, t>> : t \in S}

\* the agentIds lists a group is given: create_group accepts any list, also
\* one that names an agent more than once
AgentLists == DistinctSeqs(AgentIds, MaxTargets) \cup RepeatLists(AgentIds)

\* positions in an agentIds list
Positions == 1..MaxTargets

Groups ==
    [agentIds : AgentLists, mode : Modes, timeout : BOOLEAN]

NoBroadcastResult ==
    [firstResponse |-> "none", allSucceeded |-> FALSE, anySucceeded |-> FALSE,
     returned |-> FALSE]

\* how one executor call can end; a failure may carry data_slush in e.result
ExecOutcomes == {"ok", "fails", "fails_slush", "times_out"}

\* all and race mode never read e.result (lines 89-90, 119-121): there a
\* failure with slush and one without are the same outcome
ConcurrentOutcomes == ExecOutcomes \ {"fails_slush"}

IsSuccess(o) == o = "ok"

\* the slush a failure of agent t carries
FailureSlush(t) == <<"failed", t>>

Targets(g) == SeqToSet(g.agentIds)

\* lines 94-102, 149-157, 186-194: results is a dict keyed by agent id
broadcast_result(g, res, first) ==
    LET successes == Cardinality({t \in AgentIds : IsSuccess(res[t])})
    IN  [firstResponse |-> first,
         allSucceeded |-> successes = Len(g.agentIds),
         anySucceeded |-> successes > 0,
         returned |-> TRUE]

BroadcastQuiet ==
    /\ groups = <<>>
    /\ bRemoved = {}
    /\ bGroupId = "none"
    /\ bPc = "idle"
    /\ bGroup = NoGroup
    /\ results = <<>>
    /\ bOut = <<>>
    /\ first_response = "none"
    /\ last_slush = NoSlush
    /\ bIdx = 0
    /\ bTask = <<>>
    /\ bCalls = <<>>
    /\ bUpstream = <<>>
    /\ bOrder = <<>>
    /\ bResult = NoBroadcastResult

\* a new manager, lines 21-22
BroadcastInit ==
    /\ groups = <<>>
    /\ bRemoved = {}
    /\ bGroupId = "none"
    /\ bPc = "idle"
    /\ bGroup = NoGroup
    /\ results = [t \in AgentIds |-> "none"]
    /\ bOut = [p \in Positions |-> "none"]
    /\ first_response = "none"
    /\ last_slush = NoSlush
    /\ bIdx = 0
    /\ bTask = [p \in Positions |-> "new"]
    /\ bCalls = [p \in Positions |-> 0]
    /\ bUpstream = [p \in Positions |-> NoSlush]
    /\ bOrder = <<>>
    /\ bResult = NoBroadcastResult

\* a call on a timeout-less group cannot time out
OutcomeAllowed(g, o) == o = "times_out" => g.timeout

\* create_group(), line 30
CreateGroup(gid, g) ==
    /\ bPc = "idle"
    /\ groups' = [x \in DOMAIN groups \cup {gid} |-> IF x = gid THEN g ELSE groups[x]]
    /\ bRemoved' = bRemoved \ {gid}
    /\ UNCHANGED <<nonBroadcast, bGroupId, bPc, bGroup, results, bOut, first_response,
                   last_slush, bIdx, bTask, bCalls, bUpstream, bOrder, bResult>>

\* remove_group(), lines 32-37
RemoveGroup(gid) ==
    /\ bPc = "idle"
    /\ groups' = [x \in DOMAIN groups \ {gid} |-> groups[x]]
    /\ bRemoved' = IF gid \in DOMAIN groups THEN bRemoved \cup {gid} ELSE bRemoved
    /\ UNCHANGED <<nonBroadcast, bGroupId, bPc, bGroup, results, bOut, first_response,
                   last_slush, bIdx, bTask, bCalls, bUpstream, bOrder, bResult>>

\* line 58: self._groups.get(group_id)
get_group(gid) == IF gid \in DOMAIN groups THEN groups[gid] ELSE NoGroup

\* line 59: if not group
group_missing_Never(g) == FALSE

group_missing(g) == g = NoGroup

\* lines 70, 92 and 123: the mode handler starts one run_agent per entry of
\* agentIds, whatever the mode is when it is not race or fallback
started_entries_DistinctOnly(g) ==
    {p \in DOMAIN g.agentIds : \A q \in 1..(p - 1) : g.agentIds[q] # g.agentIds[p]}

started_entries(g) == DOMAIN g.agentIds

\* broadcast(), lines 58-70, up to the first await.  In all and race mode
\* every run_agent starts and makes its executor call before any completes.
BroadcastStart(gid) ==
    /\ bPc = "idle"
    /\ bGroupId' = gid
    /\ LET g == get_group(gid) IN
       /\ bGroup' = g
       /\ IF group_missing(g)
          THEN /\ bPc' = "raised"
               /\ UNCHANGED <<bResult, bIdx, bTask, bCalls>>
          ELSE IF g.mode = "fallback"
          THEN IF g.agentIds = <<>>
               THEN /\ bPc' = "done"
                    /\ bResult' = broadcast_result(g, results, "none")
                    /\ UNCHANGED <<bIdx, bTask, bCalls>>
               ELSE /\ bPc' = "fallback"
                    /\ bIdx' = 1
                    /\ UNCHANGED <<bResult, bTask, bCalls>>
          ELSE /\ bPc' = IF g.mode = "race" THEN "race" ELSE "all"
               /\ bTask' = [p \in Positions |->
                               IF p \in started_entries(g) THEN "running" ELSE "new"]
               /\ bCalls' = [p \in Positions |-> IF p \in started_entries(g) THEN 1 ELSE 0]
               /\ UNCHANGED <<bResult, bIdx>>
    /\ UNCHANGED <<nonBroadcast, bRemoved, groups, results, bOut, first_response, last_slush,
                   bUpstream, bOrder>>

\* lines 87-88: if first_response is None
keeps_first_Never(first) == FALSE

keeps_first(first) == first # "none"

\* one run_agent of all or race mode ends, lines 80-90 and 111-121
BroadcastComplete(p, o) ==
    /\ bPc \in {"all", "race"}
    /\ bTask[p] = "running"
    /\ OutcomeAllowed(bGroup, o)
    /\ bTask' = [bTask EXCEPT ![p] = "done"]
    /\ results' = [results EXCEPT ![bGroup.agentIds[p]] = o]
    /\ bOut' = [bOut EXCEPT ![p] = o]
    /\ bOrder' = Append(bOrder, p)
    /\ first_response' = IF bPc = "all" /\ IsSuccess(o) /\ ~keeps_first(first_response)
                         THEN bGroup.agentIds[p] ELSE first_response
    /\ UNCHANGED <<nonBroadcast, bGroupId, bRemoved, groups, bPc, bGroup, last_slush, bIdx, bCalls,
                   bUpstream, bResult>>

\* the successes among the done tasks, one of which the for loop meets first
\* (done is a set: its iteration order is not fixed)
RaceWinners == {p \in Positions : bTask[p] = "done" /\ IsSuccess(bOut[p])}

\* asyncio.wait(FIRST_COMPLETED) returns, lines 127-138: the first success
\* among the done tasks is taken and the pending tasks are cancelled.
\* With no target at all asyncio.wait raises and the except swallows it.
\* w = 0: no done task succeeded.
RaceWake(w) ==
    /\ bPc = "race"
    /\ \/ \E p \in Positions : bTask[p] = "done"
       \/ bGroup.agentIds = <<>>
    /\ IF RaceWinners = {} THEN w = 0 ELSE w \in RaceWinners
    /\ first_response' = IF w = 0 THEN "none" ELSE bGroup.agentIds[w]
    /\ bTask' = [p \in Positions |-> IF bTask[p] = "running" THEN "cancelling" ELSE bTask[p]]
    /\ bPc' = "cancel"
    /\ UNCHANGED <<nonBroadcast, bGroupId, bRemoved, groups, bGroup, results, bOut, last_slush, bIdx,
                   bCalls, bUpstream, bOrder, bResult>>

\* lines 146-157: what the end of a cancelled call does to first_response
late_first_response_Replaces(first, t, o) == IF IsSuccess(o) THEN t ELSE first

late_first_response(first, t, o) == first

\* a cancelled task ends, line 142: CancelledError passes through run_agent
\* and leaves no entry, unless the call ends on its own before the
\* cancellation lands and its outcome is recorded
RaceCancelled(p, o) ==
    /\ bPc = "cancel"
    /\ bTask[p] = "cancelling"
    /\ OutcomeAllowed(bGroup, o)
    /\ IF o = "cancelled"
       THEN /\ bTask' = [bTask EXCEPT ![p] = "cancelled"]
            /\ UNCHANGED <<results, bOut, bOrder, first_response>>
       ELSE /\ bTask' = [bTask EXCEPT ![p] = "slipped"]
            /\ results' = [results EXCEPT ![bGroup.agentIds[p]] = o]
            /\ bOut' = [bOut EXCEPT ![p] = o]
            /\ bOrder' = Append(bOrder, p)
            /\ first_response' = late_first_response(first_response, bGroup.agentIds[p], o)
    /\ UNCHANGED <<nonBroadcast, bGroupId, bRemoved, groups, bPc, bGroup, last_slush,
                   bIdx, bCalls, bUpstream, bResult>>

\* every task has ended: the return of _broadcast_all / _broadcast_race
BroadcastFinish ==
    /\ bPc \in {"all", "cancel"}
    /\ \A p \in Positions : bTask[p] \notin {"running", "cancelling"}
    /\ bPc' = "done"
    /\ bResult' = broadcast_result(bGroup, results, first_response)
    /\ UNCHANGED <<nonBroadcast, bGroupId, bRemoved, groups, bGroup, results, bOut, first_response,
                   last_slush, bIdx, bTask, bCalls, bUpstream, bOrder>>

\* line 179: a success ends the fallback loop
fallback_stops_Never(o) == FALSE

fallback_stops(o) == IsSuccess(o)

\* lines 183-184: last_slush after the failure o of agent t; it is assigned
\* only when the failure carries data_slush
slush_after_failure(last, t, o) == IF o = "fails_slush" THEN FailureSlush(t) ELSE last

\* one iteration of the fallback loop, lines 170-184, and the return after
\* the loop when it was the last one
FallbackTry(o) ==
    /\ bPc = "fallback"
    /\ bIdx <= Len(bGroup.agentIds)
    /\ OutcomeAllowed(bGroup, o)
    /\ LET t == bGroup.agentIds[bIdx]
           res1 == [results EXCEPT ![t] = o]
           first1 == IF IsSuccess(o) THEN t ELSE first_response
           last == fallback_stops(o) \/ bIdx = Len(bGroup.agentIds)
       IN
       /\ bCalls' = [bCalls EXCEPT ![bIdx] = @ + 1]
       /\ bUpstream' = [bUpstream EXCEPT ![bIdx] = last_slush]
       /\ bTask' = [bTask EXCEPT ![bIdx] = "done"]
       /\ bOrder' = Append(bOrder, bIdx)
       /\ results' = res1
       /\ bOut' = [bOut EXCEPT ![bIdx] = o]
       /\ first_response' = first1
       /\ last_slush' = IF IsSuccess(o) THEN last_slush
                        ELSE slush_after_failure(last_slush, t, o)
       /\ IF last
          THEN /\ bPc' = "done"
               /\ bResult' = broadcast_result(bGroup, res1, first1)
               /\ UNCHANGED bIdx
          ELSE /\ bIdx' = bIdx + 1
               /\ UNCHANGED <<bPc, bResult>>
    /\ UNCHANGED <<nonBroadcast, bGroupId, bRemoved, groups, bGroup>>

BroadcastNext ==
    \/ \E gid \in GroupIds, g \in Groups : CreateGroup(gid, g)
    \/ \E gid \in BroadcastIds : RemoveGroup(gid)
    \/ \E gid \in BroadcastIds : BroadcastStart(gid)
    \/ \E p \in Positions, o \in ConcurrentOutcomes : BroadcastComplete(p, o)
    \/ \E w \in Positions \cup {0} : RaceWake(w)
    \/ \E p \in Positions, o \in ConcurrentOutcomes \cup {"cancelled"} : RaceCancelled(p, o)
    \/ BroadcastFinish
    \/ \E o \in ExecOutcomes : FallbackTry(o)

\* ========================================================================
\* Properties of BroadcastManager
\* ========================================================================
InFallback == bGroup.mode = "fallback"

\* the agent id of the entry at position p of the group at hand
AgentAt(p) == bGroup.agentIds[p]

\* the positions whose call has ended
Ended == {p \in DOMAIN bGroup.agentIds : bOut[p] # "none"}

\* C6: in fallback mode the targets are called one at a time in declared
\* order; the first success becomes firstResponse and ends the broadcast
\* with no later target called; when all fail firstResponse is empty and
\* anySucceeded is false.
C6_FallbackStopsAtFirstSuccess ==
    InFallback =>
        /\ Len(bOrder) <= Len(bGroup.agentIds)
        /\ bOrder = [k \in 1..Len(bOrder) |-> k]
        /\ \A p \in Positions : bCalls[p] = IF InSeq(p, bOrder) THEN 1 ELSE 0
        /\ \A k \in DOMAIN bOrder :
               IsSuccess(bOut[k]) =>
                   /\ k = Len(bOrder)
                   /\ bPc = "done"
                   /\ bResult.firstResponse = AgentAt(k)
                   /\ bResult.anySucceeded
        /\ (bPc = "done" /\ \A k \in DOMAIN bOrder : ~IsSuccess(bOut[k])) =>
               /\ Len(bOrder) = Len(bGroup.agentIds)
               /\ bResult.firstResponse = "none"
               /\ ~bResult.anySucceeded

\* three targets: the first failed, the second succeeded, the third was
\* never called
C6_Witness ==
    /\ InFallback
    /\ bPc = "done"
    /\ bGroup.agentIds = <<"a1", "a2", "a3">>
    /\ bOrder = <<1, 2>>
    /\ ~IsSuccess(bOut[1])
    /\ IsSuccess(bOut[2])
    /\ bCalls[3] = 0
    /\ bResult.firstResponse = "a2"

\* C7: in race mode firstResponse is a target whose call succeeded, and it
\* is empty only when every target's call ran to its end without success: a
\* failure that ends first does not end the race.
C7_RaceFirstSuccess ==
    (bPc = "done" /\ bGroup.mode = "race") =>
        /\ bResult.firstResponse # "none" =>
               \E p \in Ended : AgentAt(p) = bResult.firstResponse /\ IsSuccess(bOut[p])
        /\ bResult.firstResponse = "none" =>
               \A p \in DOMAIN bGroup.agentIds :
                   bTask[p] \in {"done", "slipped"} /\ ~IsSuccess(bOut[p])

\* C20: broadcast() on a group id that is not registered, because no group
\* was created under it or because it was removed, raises 'group not found'
\* and no executor call is made.
C20_UnknownGroupRaises ==
    (bPc # "idle" /\ bGroupId \notin DOMAIN groups) =>
        /\ bPc = "raised"
        /\ \A p \in Positions : bCalls[p] = 0 /\ bOut[p] = "none"
        /\ \A t \in AgentIds : results[t] = "none"
        /\ bOrder = <<>>
        /\ bResult = NoBroadcastResult

\* broadcast() has raised on the id of a group that had been removed
C20_Witness ==
    /\ bPc = "raised"
    /\ bGroupId \in bRemoved
    /\ groups = <<>>

\* C21: in fallback mode the upstream_slush argument of the call made for
\* target i+1 is the slush the failure of target i carried, and none when
\* that failure carried no slush; the first target is called with none.
C21_FallbackUpstreamSlush ==
    InFallback =>
        \A k \in DOMAIN bOrder :
            bUpstream[k] = IF k > 1 /\ bOut[k - 1] = "fails_slush"
                           THEN FailureSlush(AgentAt(k - 1))
                           ELSE NoSlush

\* C22: in every mode allSucceeded is true exactly when every configured
\* target was invoked and its call succeeded, and anySucceeded is true
\* exactly when the call of at least one target succeeded; so in fallback
\* mode allSucceeded is false once an earlier target has failed.
C22_SuccessFlags ==
    (bPc = "done") =>
        /\ bResult.allSucceeded <=>
               \A p \in DOMAIN bGroup.agentIds : bCalls[p] > 0 /\ IsSuccess(bOut[p])
        /\ bResult.anySucceeded <=>
               \E p \in DOMAIN bGroup.agentIds : IsSuccess(bOut[p])

\* all mode, also taken for a mode that is not all, race or fallback
InAllMode == bGroup.mode \in {"all", "other"}

\* C23: in all mode the executor is called exactly once for every entry of
\* agentIds and for nothing else, and when broadcast() returns the result
\* map holds an outcome for every target, whichever calls failed or timed
\* out.
C23_AllModeCallsEveryTarget ==
    (InAllMode /\ bPc # "idle") =>
        /\ bPc \in {"all", "done"}
        /\ \A p \in Positions :
               bCalls[p] = IF p \in DOMAIN bGroup.agentIds THEN 1 ELSE 0
        /\ bPc = "done" =>
               /\ bResult.returned
               /\ \A p \in DOMAIN bGroup.agentIds :
                      bOut[p] # "none" /\ results[AgentAt(p)] # "none"

\* a group of unknown mode has returned; of its three calls one failed, one
\* timed out and one succeeded
C23_Witness ==
    /\ bPc = "done"
    /\ bGroup.mode = "other"
    /\ bGroup.agentIds = <<"a1", "a2", "a3">>
    /\ bOut = <<"fails", "times_out", "ok">>
    /\ bCalls = <<1, 1, 1>>
    /\ results = [a1 |-> "fails", a2 |-> "times_out", a3 |-> "ok"]

\* the places in the completion order at which a call succeeded
SuccessPlaces == {k \in DOMAIN bOrder : IsSuccess(bOut[bOrder[k]])}

\* the agent whose call was the first to end in success ("none": no success yet)
EarliestSuccess ==
    IF SuccessPlaces = {} THEN "none"
    ELSE AgentAt(bOrder[CHOOSE k \in SuccessPlaces : \A j \in SuccessPlaces : k <= j])

\* C24: in all mode, whatever the order in which the calls end, firstResponse
\* is at every moment the target whose call was the first to end in success:
\* a later success never replaces it, and it is empty exactly when no call
\* has succeeded.
C24_AllModeFirstResponse ==
    (InAllMode /\ bPc \in {"all", "done"}) =>
        /\ first_response = EarliestSuccess
        /\ first_response = "none" <=> SuccessPlaces = {}
        /\ bPc = "done" => bResult.firstResponse = EarliestSuccess

\* the third target failed first, then the second succeeded, then the first
\* succeeded: firstResponse is the second
C24_Witness ==
    /\ bPc = "done"
    /\ bGroup.mode = "all"
    /\ bGroup.agentIds = <<"a1", "a2", "a3">>
    /\ bOrder = <<3, 2, 1>>
    /\ bOut = <<"ok", "ok", "fails">>
    /\ bResult.firstResponse = "a2"

\* C25: in race mode, from the moment the winner has been taken and the
\* other calls are being cancelled, firstResponse does not change any more:
\* a call that ends by itself before its cancellation lands has its outcome
\* recorded in the result map, and the returned firstResponse is the winner.
C25_RaceWinnerKept ==
    [][(bGroup.mode = "race" /\ bPc = "cancel") =>
          /\ first_response' = first_response
          /\ \A p \in DOMAIN bGroup.agentIds :
                 (bTask[p] = "cancelling" /\ bTask'[p] = "slipped") =>
                     /\ bOut'[p] \in ExecOutcomes
                     /\ results'[AgentAt(p)] = bOut'[p]
          /\ bPc' = "done" => bResult'.firstResponse = first_response]_vars

\* the first target won the race; the second was cancelled, the third
\* succeeded before its cancellation landed and is in the result map
C25_Witness ==
    /\ bPc = "done"
    /\ bGroup.mode = "race"
    /\ bGroup.agentIds = <<"a1", "a2", "a3">>
    /\ bTask = <<"done", "cancelled", "slipped">>
    /\ results = [a1 |-> "ok", a2 |-> "none", a3 |-> "ok"]
    /\ bResult.firstResponse = "a1"

\* C38: in every mode and for every pattern of outcomes, calls that end
\* despite a race cancellation included, the firstResponse that broadcast()
\* returns is non-empty exactly when anySucceeded is true.
C38_FirstResponseIffAnySucceeded ==
    (bPc = "done") => (bResult.firstResponse # "none" <=> bResult.anySucceeded)

\* ========================================================================
\* SubAgentManager
\* ========================================================================
\* largest maxDepth a config sets, and deepest context a caller passes
MaxDepthCfg == 2

\* longest history of a caller's context, where every config is tried
MaxShortHist == 3

\* longest history of a caller's context
MaxHist == 11

\* most invoke() calls made on one manager
MaxAttempts == 3

\* most invoke() calls of one chain of nested invocations
MaxChain == 12

\* the agents of a chain of nested invocations, in the order of first use
DeepPool == <<"a", "b", "c", "d">>

\* config.get('maxDepth', 5)
DefaultMaxDepth == 5

\* history[-10:] and call_count >= 3
LoopWindow == 10
LoopThreshold == 3

SubAgents == {"a", "b"}

\* maxDepth = Absent: the config has no maxDepth key
Absent == -1

\* config.get('timeout', 30000)
DefaultTimeout == 30000

\* timeout: no key, a value that counts as false, a number of milliseconds
Timeouts == {Absent, 0, 1}

\* allowedAgents: all = TRUE is None (no allow-list)
Configs ==
    [maxDepth : {Absent} \cup 0..MaxDepthCfg,
     allowAll : BOOLEAN,
     allowed : SUBSET SubAgents,
     blocked : SUBSET SubAgents,
     timeout : {Absent}]

\* an absent allow-list has no members to tell apart
ConfigsGiven == {c \in Configs : c.allowAll => c.allowed = {}}

DefaultConfig ==
    [maxDepth |-> Absent, allowAll |-> TRUE, allowed |-> {}, blocked |-> {},
     timeout |-> Absent]

\* depth limit and timeout set or left out, no allow-list, nothing blocked
ConfigsNest ==
    {[DefaultConfig EXCEPT !.maxDepth = m, !.timeout = t] :
        m \in {Absent} \cup 0..MaxDepthCfg, t \in Timeouts}

Histories(n) == UNION {[1..k -> SubAgents] : k \in 0..n}

Context(depth, history, slush) ==
    [depth |-> depth, history |-> history, lastSlush |-> slush]

\* self._config['maxDepth'], line 30
max_depth_OrDefault(cfg) ==
    IF cfg.maxDepth = Absent \/ cfg.maxDepth = 0 THEN DefaultMaxDepth ELSE cfg.maxDepth

max_depth(cfg) == IF cfg.maxDepth = Absent THEN DefaultMaxDepth ELSE cfg.maxDepth

\* lines 31, 117 and 121: self._config['timeout'] is set and counts as true
has_timeout(cfg) == (IF cfg.timeout = Absent THEN DefaultTimeout ELSE cfg.timeout) # 0

\* lines 47-64
can_invoke_NoDepthCheck(agent_id, depth) ==
    IF agent_id \in sConfig.blocked THEN FALSE
    ELSE IF ~sConfig.allowAll /\ agent_id \notin sConfig.allowed THEN FALSE
    ELSE TRUE

can_invoke(agent_id, depth) ==
    IF depth >= max_depth(sConfig) THEN FALSE
    ELSE IF agent_id \in sConfig.blocked THEN FALSE
    ELSE IF ~sConfig.allowAll /\ agent_id \notin sConfig.allowed THEN FALSE
    ELSE TRUE

\* context['history'][-10:], line 88
recent_calls_Unsliced(history) == history

recent_calls(history) ==
    IF Len(history) > LoopWindow
    THEN SubSeq(history, Len(history) - LoopWindow + 1, Len(history))
    ELSE history

\* line 89
call_count(target, history) ==
    Len(SelectSeq(recent_calls(history), LAMBDA c : c = target))

\* lines 77-91: the guard that refuses the call, "pass" when none does
invoke_guard_NoLoopCheck(target, ctx) ==
    IF ~sExecutor THEN "no_executor"
    ELSE IF ~can_invoke(target, ctx.depth) THEN "cannot_invoke"
    ELSE "pass"

invoke_guard_LateLoopCheck(target, ctx) ==
    IF ~sExecutor THEN "no_executor"
    ELSE IF ~can_invoke(target, ctx.depth) THEN "cannot_invoke"
    ELSE IF call_count(target, ctx.history) > LoopThreshold THEN "loop"
    ELSE "pass"

invoke_guard(target, ctx) ==
    IF ~sExecutor THEN "no_executor"
    ELSE IF ~can_invoke(target, ctx.depth) THEN "cannot_invoke"
    ELSE IF call_count(target, ctx.history) >= LoopThreshold THEN "loop"
    ELSE "pass"

Refusals == {"no_executor", "cannot_invoke", "loop"}

NoContext == Context(0, <<>>, NoSlush)

NoAttempt == [kind |-> "none", target |-> "none", ctx |-> NoContext]

NoCanInvoke == [called |-> FALSE, agent_id |-> "none", depth |-> 0, result |-> FALSE]

\* how one executor call can end
SubOutcomes == {"ok", "ok_slush", "raises", "times_out"}

\* a context in use: ctx is the context, call the id of the invocation
\* whose child context it is (0: the caller's own context), upstream the
\* upstream_slush argument that invocation gave the executor
RootFrame(ctx) == [ctx |-> ctx, call |-> 0, upstream |-> NoSlush]

\* lines 108-113: the child context has no lastSlush key
child_context(ctx, target) ==
    Context(ctx.depth + 1, Append(ctx.history, target), NoSlush)

\* the slush in the result of a call of target that ends as o says
ResultSlush(target, o) == IF o = "ok_slush" THEN <<"own", target>> ELSE NoSlush

\* lines 132-133 and 140-149: the caller's context after the call of target
\* ended as o says; only lastSlush is ever assigned
context_after_Appends(ctx, target, o) ==
    [ctx EXCEPT !.history = Append(@, target),
                !.lastSlush = IF o = "ok_slush" THEN ResultSlush(target, o) ELSE @]

context_after_SlushDropped(ctx, target, o) == ctx

context_after(ctx, target, o) ==
    IF o = "ok_slush" THEN [ctx EXCEPT !.lastSlush = ResultSlush(target, o)] ELSE ctx

\* lines 127 and 142: the status of the record of a call that ended as o says
final_status_AlwaysSuccess(o) == "success"

final_status(o) == IF o \in {"ok", "ok_slush"} THEN "success" ELSE "error"

\* lines 138 and 149: invoke() returns the result or raises the failure again
invoke_ends(o) == IF o \in {"ok", "ok_slush"} THEN "returned" ELSE "raised"

\* lines 126-129 and 141-144: the record that goes to the call history
ended_call(call, o) ==
    [id |-> call.id, target |-> call.target, depth |-> call.depth,
     status |-> final_status(o), data_slush |-> ResultSlush(call.target, o)]

SubQuiet ==
    /\ sConfig = DefaultConfig
    /\ sExecutor = FALSE
    /\ active_calls = {}
    /\ call_history = <<>>
    /\ sStack = <<>>
    /\ sAttempts = 0
    /\ sLast = NoAttempt
    /\ sExecCalls = 0
    /\ sCan = NoCanInvoke

SubFresh ==
    /\ active_calls = {}
    /\ call_history = <<>>
    /\ sAttempts = 0
    /\ sLast = NoAttempt
    /\ sExecCalls = 0
    /\ sCan = NoCanInvoke

\* any config, with or without executor; a caller's context of short history
SubInit ==
    /\ sConfig \in ConfigsGiven
    /\ sExecutor \in BOOLEAN
    /\ \E d \in 0..MaxDepthCfg, h \in Histories(MaxShortHist) :
           sStack = <<RootFrame(Context(d, h, NoSlush))>>
    /\ SubFresh

\* the default config with or without a blocked agent; a caller's context
\* of any history up to MaxHist, at the top or at the depth limit
SubLoopInit ==
    /\ \E bl \in {{}, {"b"}} : sConfig = [DefaultConfig EXCEPT !.blocked = bl]
    /\ sExecutor = TRUE
    /\ \E d \in {0, DefaultMaxDepth}, h \in Histories(MaxHist) :
           sStack = <<RootFrame(Context(d, h, NoSlush))>>
    /\ SubFresh

\* a manager with an executor; a caller's context whose history is empty
\* or holds two calls of one agent, and that may hold a lastSlush
SubNestInit ==
    /\ sConfig \in ConfigsNest
    /\ sExecutor = TRUE
    /\ \E d \in 0..MaxDepthCfg, h \in {<<>>, <<"a", "a">>},
          sl \in {NoSlush, <<"given">>} :
           sStack = <<RootFrame(Context(d, h, sl))>>
    /\ SubFresh

\* a manager with an executor and no agent lists, of the default depth
\* limit or of one that no chain reaches; the context of create_context()
SubDeepInit ==
    /\ \E m \in {Absent, MaxChain} : sConfig = [DefaultConfig EXCEPT !.maxDepth = m]
    /\ sExecutor = TRUE
    /\ sStack = <<RootFrame(NoContext)>>
    /\ SubFresh

\* a manager on which can_invoke is asked
SubCanInit ==
    /\ sConfig \in ConfigsGiven
    /\ sExecutor \in BOOLEAN
    /\ sStack = <<RootFrame(NoContext)>>
    /\ SubFresh

\* can_invoke(agent_id, depth), lines 47-64
SubCanInvoke(agent_id, depth) ==
    /\ sCan' = [called |-> TRUE, agent_id |-> agent_id, depth |-> depth,
                result |-> can_invoke(agent_id, depth)]
    /\ UNCHANGED <<nonSub, sConfig, sExecutor, active_calls, call_history, sStack,
                   sAttempts, sLast, sExecCalls>>

\* the context the next invoke() is given: the caller's, or the child
\* context of the invocation in progress
TopCtx == sStack[Len(sStack)].ctx

\* invoke(), lines 66-120, up to the await of the executor call
Invoke(target) ==
    /\ sAttempts' = sAttempts + 1
    /\ LET ctx == TopCtx
           guard == invoke_guard(target, ctx)
           call_id == sAttempts + 1
           call == [id |-> call_id, target |-> target, depth |-> ctx.depth]
       IN
       IF guard # "pass"
       THEN /\ sLast' = [kind |-> guard, target |-> target, ctx |-> ctx]
            /\ UNCHANGED <<active_calls, sStack, sExecCalls>>
       ELSE /\ sLast' = [kind |-> "started", target |-> target, ctx |-> ctx]
            /\ active_calls' = active_calls \cup {call}
            /\ sStack' = Append(sStack, [ctx |-> child_context(ctx, target),
                                         call |-> call_id,
                                         upstream |-> ctx.lastSlush])
            /\ sExecCalls' = sExecCalls + 1
    /\ UNCHANGED <<nonSub, sConfig, sExecutor, call_history, sCan>>

SubInvoke(target) == sAttempts < MaxAttempts /\ Invoke(target)

\* an invoke() made by the agent of the innermost invocation and not
\* followed by any return; the chain ends with the first refusal.  No list
\* of the config names an agent, so the agents are interchangeable: a chain
\* uses them in the order of DeepPool.
SubInvokeDeep(target) ==
    /\ sAttempts < MaxChain
    /\ sLast.kind \notin Refusals
    /\ \E i \in DOMAIN DeepPool :
           /\ DeepPool[i] = target
           /\ \A j \in 1..(i - 1) : InSeq(DeepPool[j], TopCtx.history)
    /\ Invoke(target)

\* the executor call of the innermost invocation ends, lines 126-149
SubReturn(o) ==
    /\ Len(sStack) > 1
    /\ o = "times_out" => has_timeout(sConfig)
    /\ LET frame == sStack[Len(sStack)]
           call == CHOOSE c \in active_calls : c.id = frame.call
           parent == sStack[Len(sStack) - 1]
           parent1 == [parent EXCEPT !.ctx = context_after(parent.ctx, call.target, o)]
       IN
       /\ active_calls' = active_calls \ {call}
       /\ call_history' = Append(call_history, ended_call(call, o))
       /\ sStack' = Append(SubSeq(sStack, 1, Len(sStack) - 2), parent1)
       /\ sLast' = [kind |-> invoke_ends(o), target |-> call.target, ctx |-> parent.ctx]
    /\ UNCHANGED <<nonSub, sConfig, sExecutor, sAttempts, sExecCalls, sCan>>

\* the timeout of the invocation of frame k expires while invocations
\* nested in it are in progress, lines 122 and 140-149: wait_for cancels the
\* executor call, CancelledError passes through the nested invoke() calls,
\* whose except Exception does not catch it, and invoke() of frame k goes to
\* its except branch with the TimeoutError
SubTimeoutOuter(k) ==
    /\ 1 < k
    /\ k < Len(sStack)
    /\ has_timeout(sConfig)
    /\ LET frame == sStack[k]
           call == CHOOSE c \in active_calls : c.id = frame.call
           parent == sStack[k - 1]
       IN
       /\ active_calls' = active_calls \ {call}
       /\ call_history' = Append(call_history, ended_call(call, "times_out"))
       /\ sStack' = SubSeq(sStack, 1, k - 1)
       /\ sLast' = [kind |-> invoke_ends("times_out"), target |-> call.target,
                    ctx |-> parent.ctx]
    /\ UNCHANGED <<nonSub, sConfig, sExecutor, sAttempts, sExecCalls, sCan>>

SubNext ==
    \/ \E t \in SubAgents : SubInvoke(t)
    \/ \E o \in SubOutcomes : SubReturn(o)
    \/ \E k \in 2..MaxAttempts : SubTimeoutOuter(k)

SubDeepNext == \E t \in SeqToSet(DeepPool) : SubInvokeDeep(t)

SubCanNext ==
    \E id \in SubAgents, d \in 0..(DefaultMaxDepth + 1) : SubCanInvoke(id, d)

\* ========================================================================
\* Properties of SubAgentManager
\* ========================================================================
\* occurrences of target among the last LoopWindow entries of h
CountInWindow(target, h) ==
    Cardinality({i \in DOMAIN h : i > Len(h) - LoopWindow /\ h[i] = target})

\* C8: once an executor is set and can_invoke allows the call, invoke raises
\* the loop error exactly when the target occurs 3 or more times among the
\* last 10 history entries; otherwise it never raises the loop error.
C8_LoopDetection ==
    sLast.kind # "none" =>
        (sLast.kind = "loop" <=>
            /\ sExecutor
            /\ can_invoke(sLast.target, sLast.ctx.depth)
            /\ CountInWindow(sLast.target, sLast.ctx.history) >= LoopThreshold)

\* refused with exactly 3 occurrences among the last 10 entries of a longer
\* history that holds a further, older occurrence
C8_Witness ==
    /\ sLast.kind = "loop"
    /\ Len(sLast.ctx.history) > LoopWindow
    /\ CountInWindow(sLast.target, sLast.ctx.history) = LoopThreshold
    /\ sLast.ctx.history[1] = sLast.target

\* the maxDepth the config asks for
ConfiguredMaxDepth == IF sConfig.maxDepth = Absent THEN DefaultMaxDepth ELSE sConfig.maxDepth

\* C9: can_invoke is true exactly when depth < maxDepth, the id is not
\* blocked, and there is no allow-list or the id is on it.
C9_CanInvoke ==
    sCan.called =>
        (sCan.result <=>
            /\ sCan.depth < ConfiguredMaxDepth
            /\ sCan.agent_id \notin sConfig.blocked
            /\ (sConfig.allowAll \/ sCan.agent_id \in sConfig.allowed))

\* maxDepth 0 refuses depth 0; an id on both lists is refused
C9_Witness ==
    /\ sCan.called
    /\ ~sCan.result
    /\ sCan.depth = 0
    /\ sConfig.maxDepth = 0
    /\ sCan.agent_id \in sConfig.allowed \cap sConfig.blocked

\* a guard rule forbids invoking target from ctx
GuardRuleBroken(target, ctx) ==
    \/ ~sExecutor
    \/ ctx.depth >= ConfiguredMaxDepth
    \/ target \in sConfig.blocked
    \/ (~sConfig.allowAll /\ target \notin sConfig.allowed)
    \/ CountInWindow(target, ctx.history) >= LoopThreshold

\* C10: an invoke() that a guard rule forbids is refused, makes no executor
\* call and leaves the active calls, the call history and the contexts
\* as they were.
C10_RefusalChangesNothing ==
    [][(sAttempts' # sAttempts /\ GuardRuleBroken(sLast'.target, TopCtx)) =>
          /\ sLast'.kind \in Refusals
          /\ UNCHANGED <<active_calls, call_history, sStack, sExecCalls>>]_vars

\* a nested invoke was refused by loop detection while its parent call was
\* in progress
C10_Witness ==
    /\ sLast.kind = "loop"
    /\ Len(sStack) > 1
    /\ active_calls # {}

\* C26: an invoke() that passes the guards gives the executor a child
\* context whose depth is the caller's plus one and whose history is the
\* caller's followed by this call; no step changes the depth or the history
\* of a context in use, so invocations made one after another from one
\* context are all judged on that context's own history: the loop error
\* is raised only when that history holds the target 3 times or more.
C26_ChildContextByValue ==
    [][/\ Len(sStack') = Len(sStack) + 1 =>
              /\ sStack'[Len(sStack')].ctx.depth = TopCtx.depth + 1
              /\ sStack'[Len(sStack')].ctx.history = Append(TopCtx.history, sLast'.target)
       /\ \A k \in DOMAIN sStack \cap DOMAIN sStack' :
              /\ sStack'[k].ctx.depth = sStack[k].ctx.depth
              /\ sStack'[k].ctx.history = sStack[k].ctx.history
       /\ (sAttempts' # sAttempts /\ sLast'.kind = "loop") =>
              CountInWindow(sLast'.target, TopCtx.history) >= LoopThreshold]_vars

\* three invocations of a, made one after another from a context whose
\* history holds a twice, have all run and succeeded
C26_Witness ==
    /\ Len(sStack) = 1
    /\ sStack[1].ctx.history = <<"a", "a">>
    /\ Len(call_history) = 3
    /\ \A i \in DOMAIN call_history :
           /\ call_history[i].target = "a"
           /\ call_history[i].depth = sStack[1].ctx.depth
           /\ call_history[i].status = "success"

\* C27: when an invocation ends in success with data_slush in its result,
\* the lastSlush of the context it was made from becomes that slush; when
\* it ends in failure, or is refused, that lastSlush stays as it was; and
\* every executor call is given the lastSlush its context holds at that
\* moment as upstream slush.
C27_LastSlushForwarded ==
    [][/\ Len(call_history') = Len(call_history) + 1 =>
              LET r == call_history'[Len(call_history')]
                  caller == Len(sStack')
              IN  /\ (r.status = "success" /\ r.data_slush # NoSlush) =>
                         sStack'[caller].ctx.lastSlush = r.data_slush
                  /\ r.status = "error" =>
                         sStack'[caller].ctx.lastSlush = sStack[caller].ctx.lastSlush
       /\ (sAttempts' # sAttempts /\ sLast'.kind \in Refusals) =>
              TopCtx' = TopCtx
       /\ Len(sStack') = Len(sStack) + 1 =>
              sStack'[Len(sStack')].upstream = TopCtx.lastSlush]_vars

\* from one context: a call of a succeeded with slush, then a call of b
\* failed, and the call now in progress was given a's slush
C27_Witness ==
    /\ Len(sStack) = 2
    /\ Len(call_history) = 2
    /\ call_history[1].target = "a"
    /\ call_history[1].status = "success"
    /\ call_history[1].data_slush = <<"own", "a">>
    /\ call_history[2].target = "b"
    /\ call_history[2].status = "error"
    /\ call_history[1].depth = sStack[1].ctx.depth
    /\ call_history[2].depth = sStack[1].ctx.depth
    /\ sStack[1].ctx.lastSlush = <<"own", "a">>
    /\ sStack[2].upstream = <<"own", "a">>

\* the ids of the records in the active calls
ActiveIds == {c.id : c \in active_calls}

\* C28: when the executor call of an invocation fails or runs into the
\* timeout, invoke() raises the failure to its caller, the call's record
\* goes from the active calls to the call history with status 'error', and
\* no further executor call is made for it; a record of status 'success' is
\* written only for a call whose result invoke() returns.
C28_FailureRecordedAndRaised ==
    [][call_history' # call_history =>
          LET r == call_history'[Len(call_history')] IN
          /\ call_history' = Append(call_history, r)
          /\ sLast'.kind \in {"raised", "returned"}
          /\ sLast'.target = r.target
          /\ r.status = IF sLast'.kind = "raised" THEN "error" ELSE "success"
          /\ r.id \in ActiveIds
          /\ r.id \notin ActiveIds'
          /\ sExecCalls' = sExecCalls
          /\ sAttempts' = sAttempts]_vars

\* under a config that sets a timeout, the one call made was raised to the
\* caller: it is in the history with status 'error' and no call is active
C28_Witness ==
    /\ sConfig.timeout = 1
    /\ sLast.kind = "raised"
    /\ Len(sStack) = 1
    /\ sExecCalls = 1
    /\ active_calls = {}
    /\ Len(call_history) = 1
    /\ call_history[1].status = "error"

\* C29: the executor is never given a context deeper than maxDepth, and an
\* invocation is started only from a context less deep than maxDepth: from
\* a caller's context of depth 0, with every agent invoking through the
\* child context it was given, at most maxDepth executor calls are ever
\* nested, the next invoke() being refused.
C29_DepthBounded ==
    /\ \A k \in 2..Len(sStack) :
           /\ sStack[k].ctx.depth = sStack[1].ctx.depth + k - 1
           /\ sStack[k].ctx.depth <= ConfiguredMaxDepth
    /\ sStack[1].ctx.depth = 0 => Len(sStack) - 1 <= ConfiguredMaxDepth
    /\ sLast.kind = "started" => sLast.ctx.depth < ConfiguredMaxDepth
    /\ (sLast.kind \in Refusals /\ sLast.ctx.depth >= ConfiguredMaxDepth) =>
           sLast.kind = "cannot_invoke"

\* maxDepth 2, caller at depth 0: two nested executor calls are in
\* progress and the invoke() made from the second one was refused
C29_Witness ==
    /\ sConfig.maxDepth = 2
    /\ sStack[1].ctx.depth = 0
    /\ Len(sStack) = 3
    /\ sStack[3].ctx.depth = 2
    /\ sLast.kind = "cannot_invoke"
    /\ sLast.ctx = sStack[3].ctx
    /\ sExecCalls = 2

\* the ids of the invocations in progress
RunningIds == {sStack[k].call : k \in 2..Len(sStack)}

\* C30: every invocation that passed the guards has exactly one record; the
\* record is in the active calls exactly while its invocation is in
\* progress and in the call history, with status 'success' or 'error', once
\* it has ended; no record is in both, and the active calls are empty when
\* no invocation is in progress.
C30_OneRecordPerCall ==
    /\ ActiveIds = RunningIds
    /\ Cardinality(active_calls) = Cardinality(ActiveIds)
    /\ \A i, j \in DOMAIN call_history :
           call_history[i].id = call_history[j].id => i = j
    /\ \A i \in DOMAIN call_history :
           /\ call_history[i].id \notin ActiveIds
           /\ call_history[i].status \in {"success", "error"}
    /\ Cardinality(active_calls) + Len(call_history) = sExecCalls
    /\ Len(sStack) = 1 => active_calls = {}

\* occurrences of agent among the entries i .. i + LoopWindow - 1 of h
CountFrom(agent, h, i) ==
    Cardinality({j \in DOMAIN h : i <= j /\ j < i + LoopWindow /\ h[j] = agent})

\* C37: along a chain of nested invocations that starts from a context of
\* empty history, no agent occurs more than 3 times among any 10 consecutive
\* history entries of any context invoke() has produced; an agent that
\* always invokes itself through its child context is executed at most 3
\* times, the next invoke() being refused.
C37_NoAgentFloodsHistory ==
    /\ \A i \in DOMAIN TopCtx.history, agent \in SeqToSet(TopCtx.history) :
           CountFrom(agent, TopCtx.history, i) <= LoopThreshold
    /\ \A k \in 2..Len(sStack) :
           sStack[k - 1].ctx.history = SubSeq(sStack[k].ctx.history, 1, k - 2)
    /\ (\A i \in DOMAIN TopCtx.history : TopCtx.history[i] = "a") =>
           /\ sExecCalls <= LoopThreshold
           /\ (sAttempts > LoopThreshold /\ sLast.target = "a") =>
                  sLast.kind \in Refusals

\* an agent invoked itself three times and its fourth invoke() was refused
\* by the loop check, under the default depth limit
C37_SelfInvoking ==
    /\ sConfig.maxDepth = Absent
    /\ TopCtx.history = <<"a", "a", "a">>
    /\ sExecCalls = 3
    /\ sLast.kind = "loop"
    /\ sLast.target = "a"

\* a history longer than the loop window, in which an agent that occurs 3
\* times among the older entries has been invoked again
C37_Witness ==
    /\ Len(TopCtx.history) > LoopWindow
    /\ Cardinality({j \in DOMAIN TopCtx.history : TopCtx.history[j] = "a"}) > LoopThreshold

\* ========================================================================
\* PipelineAgent, action run
\* ========================================================================
\* most steps a pipeline spec is given
MaxPipe == 3

\* the onError entry of a step; "absent" is a step without the key
OnErrors == {"absent", "stop", "continue", "skip"}

\* line 106: step.get('onError', 'stop')
on_error_DefaultContinue(step) ==
    IF step.onError = "absent" THEN "continue" ELSE step.onError

on_error(step) == IF step.onError = "absent" THEN "stop" ELSE step.onError

\* how _execute_step ends: it raises, or it returns the results of the
\* step (one of an agent step, 'skipped' one of a conditional step whose
\* condition is not met, several of a parallel or loop step).  The step
\* methods give a result the status 'success' or 'skipped' only.
PipeOutcomes == {"raises", "success", "skipped", "two_results"}

\* lines 109-112 and 129-137: the entries added to step_results
results_of(i, outcome) ==
    CASE outcome = "raises" -> <<[step |-> i, status |-> "error"]>>
      [] outcome = "skipped" -> <<[step |-> i, status |-> "skipped"]>>
      [] outcome = "two_results" -> <<[step |-> i, status |-> "success"],
                                      [step |-> i, status |-> "success"]>>
      [] OTHER -> <<[step |-> i, status |-> "success"]>>

\* lines 139-146: pipeline_status after a step that raised
status_after_raise(status, on_err) ==
    CASE on_err = "stop" -> "failed"
      [] on_err = "continue" -> "partial"
      [] OTHER -> status

PipelineQuiet ==
    /\ pSteps = <<>>
    /\ pPc = "idle"
    /\ pIdx = 0
    /\ pipeline_status = "none"
    /\ pStepResults = <<>>
    /\ pExecuted = <<>>
    /\ pResult = "none"

PipelineInit ==
    /\ \E n \in 0..MaxPipe : pSteps \in [1..n -> [onError : OnErrors]]
    /\ pPc = "idle"
    /\ pIdx = 0
    /\ pipeline_status = "none"
    /\ pStepResults = <<>>
    /\ pExecuted = [i \in DOMAIN pSteps |-> 0]
    /\ pResult = "none"

\* _run_pipeline up to the for loop, lines 82-103; a spec without steps
\* is answered with an error message and no pipeline result
PipelineRun ==
    /\ pPc = "idle"
    /\ IF pSteps = <<>>
       THEN /\ pPc' = "done"
            /\ pResult' = "no_pipeline"
            /\ UNCHANGED <<pIdx, pipeline_status>>
       ELSE /\ pPc' = "loop"
            /\ pIdx' = 1
            /\ pipeline_status' = "completed"
            /\ UNCHANGED pResult
    /\ UNCHANGED <<nonPipeline, pSteps, pStepResults, pExecuted>>

\* one iteration of the for loop, lines 105-146
PipelineStep(outcome) ==
    /\ pPc = "loop"
    /\ pIdx <= Len(pSteps)
    /\ pExecuted' = [pExecuted EXCEPT ![pIdx] = @ + 1]
    /\ pStepResults' = pStepResults \o results_of(pIdx, outcome)
    /\ IF outcome = "raises"
       THEN LET status == status_after_raise(pipeline_status, on_error(pSteps[pIdx])) IN
            /\ pipeline_status' = status
            /\ IF on_error(pSteps[pIdx]) = "stop"
               THEN /\ pPc' = "done"
                    /\ pResult' = status
                    /\ UNCHANGED pIdx
               ELSE /\ pIdx' = pIdx + 1
                    /\ UNCHANGED <<pPc, pResult>>
       ELSE /\ pIdx' = pIdx + 1
            /\ UNCHANGED <<pPc, pResult, pipeline_status>>
    /\ UNCHANGED <<nonPipeline, pSteps>>

\* after the loop, lines 148-151
PipelineFinish ==
    /\ pPc = "loop"
    /\ pIdx > Len(pSteps)
    /\ pPc' = "done"
    /\ pResult' = pipeline_status
    /\ UNCHANGED <<nonPipeline, pSteps, pIdx, pipeline_status, pStepResults, pExecuted>>

PipelineNext ==
    \/ PipelineRun
    \/ \E o \in PipeOutcomes : PipelineStep(o)
    \/ PipelineFinish

\* ========================================================================
\* Properties of PipelineAgent
\* ========================================================================
\* the steps whose _execute_step call raised
RaisedSteps == {pStepResults[k].step : k \in {j \in DOMAIN pStepResults :
                                                 pStepResults[j].status = "error"}}

C34_Partial ==
    /\ pPc = "done"
    /\ Len(pSteps) = 3
    /\ RaisedSteps = {1}
    /\ pExecuted = [i \in 1..3 |-> 1]
    /\ pResult = "partial"

\* ========================================================================
\* AgentTracer
\* ========================================================================
\* largest max_spans a tracer is given
MaxSpansCfg == 3

\* most start_span calls made
MaxStarts == 5

\* s[-m:] of Python for 0 <= m; s[-0:] is the whole list
last_slice(s, m) ==
    IF m = 0 \/ m >= Len(s) THEN s ELSE SubSeq(s, Len(s) - m + 1, Len(s))

\* _add_completed, lines 208-212
add_completed_NoEviction(completed, span, max_spans) == Append(completed, span)

add_completed(completed, span, max_spans) ==
    LET appended == Append(completed, span)
    IN  IF Len(appended) > max_spans THEN last_slice(appended, max_spans)
        ELSE appended

TracerQuiet ==
    /\ tMax = 0
    /\ tActive = {}
    /\ tCompleted = <<>>
    /\ tIssued = 0
    /\ tEnded = <<>>

TracerInit ==
    /\ tMax \in 0..MaxSpansCfg
    /\ tActive = {}
    /\ tCompleted = <<>>
    /\ tIssued = 0
    /\ tEnded = <<>>

\* start_span, lines 56-89: the span gets a fresh id and becomes active
TracerStartSpan ==
    /\ tIssued < MaxStarts
    /\ tIssued' = tIssued + 1
    /\ tActive' = tActive \cup {tIssued + 1}
    /\ UNCHANGED <<nonTracer, tMax, tCompleted, tEnded>>

\* end_span of an active span, lines 91-118
TracerEndSpan(span) ==
    /\ span \in tActive
    /\ tActive' = tActive \ {span}
    /\ tCompleted' = add_completed(tCompleted, span, tMax)
    /\ tEnded' = Append(tEnded, span)
    /\ UNCHANGED <<nonTracer, tMax, tIssued>>

TracerNext ==
    \/ TracerStartSpan
    \/ \E k \in 1..MaxStarts : TracerEndSpan(k)

\* ========================================================================
\* Properties of AgentTracer
\* ========================================================================
\* the m entries of s added last, or all of s when it has fewer
Newest(s, m) ==
    IF m >= Len(s) THEN s ELSE SubSeq(s, Len(s) - m + 1, Len(s))

\* C35: the tracer retains at most max_spans completed spans, and they are
\* the ones completed last, in the order of their completion.
C35_KeepsNewest ==
    /\ Len(tCompleted) <= tMax
    /\ tCompleted = Newest(tEnded, tMax)

\* the same for a tracer whose max_spans is positive
C35_PositiveMax ==
    tMax > 0 => C35_KeepsNewest

\* four spans were ended in another order than they were started and the
\* tracer, given max_spans 2, holds the two ended last
C35_Evicted ==
    /\ tMax = 2
    /\ tEnded = <<3, 1, 4, 2>>
    /\ tCompleted = <<4, 2>>

\* ========================================================================
\* Specifications, one per component
\* ========================================================================
InitGraph == GraphInit /\ ChainQuiet /\ BroadcastQuiet /\ SubQuiet /\ PipelineQuiet /\ TracerQuiet

SpecGraph == InitGraph /\ [][GraphNext]_vars

InitGraphPool == GraphPoolInit /\ ChainQuiet /\ BroadcastQuiet /\ SubQuiet /\ PipelineQuiet /\ TracerQuiet

SpecGraphPool == InitGraphPool /\ [][GraphPoolNext]_vars

InitChain == ChainInit /\ GraphQuiet /\ BroadcastQuiet /\ SubQuiet /\ PipelineQuiet /\ TracerQuiet

SpecChain == InitChain /\ [][ChainNext]_vars

InitBroadcast == BroadcastInit /\ GraphQuiet /\ ChainQuiet /\ SubQuiet /\ PipelineQuiet /\ TracerQuiet

SpecBroadcast == InitBroadcast /\ [][BroadcastNext]_vars

InitSub == SubInit /\ GraphQuiet /\ ChainQuiet /\ BroadcastQuiet /\ PipelineQuiet /\ TracerQuiet

SpecSub == InitSub /\ [][SubNext]_vars

InitSubLoop == SubLoopInit /\ GraphQuiet /\ ChainQuiet /\ BroadcastQuiet /\ PipelineQuiet /\ TracerQuiet

SpecSubLoop == InitSubLoop /\ [][SubNext]_vars

InitSubNest == SubNestInit /\ GraphQuiet /\ ChainQuiet /\ BroadcastQuiet /\ PipelineQuiet /\ TracerQuiet

SpecSubNest == InitSubNest /\ [][SubNext]_vars

InitSubDeep == SubDeepInit /\ GraphQuiet /\ ChainQuiet /\ BroadcastQuiet /\ PipelineQuiet /\ TracerQuiet

SpecSubDeep == InitSubDeep /\ [][SubDeepNext]_vars

InitSubCan == SubCanInit /\ GraphQuiet /\ ChainQuiet /\ BroadcastQuiet /\ PipelineQuiet /\ TracerQuiet

SpecSubCan == InitSubCan /\ [][SubCanNext]_vars

InitPipeline ==
    PipelineInit /\ GraphQuiet /\ ChainQuiet /\ BroadcastQuiet /\ SubQuiet /\ TracerQuiet

SpecPipeline == InitPipeline /\ [][PipelineNext]_vars

InitTracer ==
    TracerInit /\ GraphQuiet /\ ChainQuiet /\ BroadcastQuiet /\ SubQuiet /\ PipelineQuiet

SpecTracer == InitTracer /\ [][TracerNext]_vars

====
